---- MODULE Spec2Model ----
(***************************************************************************)
(* A model of the PostgreSQL lock analyzer (vgrozdanic/pg-locks):          *)
(*   - the lazily initialised parser handle of sqlParser.ts and the        *)
(*     parseSQL callers that share it (specification Spec);                *)
(*   - the role / lock assigner getTableLockAnalysis (SpecLocks);          *)
(*   - the lock mode registry and the query comparator (SpecCompare);      *)
(*   - the table extractor extractFromAST (SpecExtract).                   *)
(* The current sqlParser.ts is the file src/unnamed/part_004.              *)
(***************************************************************************)
EXTENDS Integers, Sequences, FiniteSets, TLC

VARIABLES
  \* ---- parser handle and parseSQL callers (Spec)
  parser,             \* module variable `parser`: NoParser (null) or a handle
  parserInitialized,  \* module variable `parserInitialized`
  testState,          \* per handle: what became of its construction / test parse
  pc,                 \* per caller: where its parseSQL call is suspended
  parserInstance,     \* per caller: the handle initParser gave it
  result,             \* per caller: the ParsedQuery its call resolved to
  joined,             \* per caller: the attempt that was in flight when it called
  myAttempt,          \* per caller: the attempt its own initParser call started
  query,              \* per caller: the query string of its parseSQL call
  \* ---- getTableLockAnalysis (SpecLocks)
  lockCall,           \* the arguments and the return value of the last call
  \* ---- compareQueries (SpecCompare)
  cmpCall,            \* the arguments and the return value of the last call
  \* ---- extractFromAST (SpecExtract)
  astCall             \* the statement of the last call and what was made of it

parserVars == <<parser, parserInitialized, testState, pc, parserInstance, result, joined, myAttempt,
               query>>
vars == <<parser, parserInitialized, testState, pc, parserInstance, result, joined,
          myAttempt, query, lockCall, cmpCall, astCall>>

----------------------------------------------------------------------------
(* Bounds of the model *)

NumCallers == 2   \* concurrent parseSQL callers
MaxParsers == 2   \* initialization attempts (PgParser handles) in one run

Callers == 1..NumCallers
Handles == 1..MaxParsers

NoParser == 0     \* null
Idle == [kind |-> "idle"]

----------------------------------------------------------------------------
(* sqlParser.ts: initParser and parseSQL *)

\* The number of initialization attempts started so far.
attempts == Cardinality({h \in Handles : testState[h] # "none"})

\* The number of PgParser objects constructed so far.
constructed == Cardinality({h \in Handles : testState[h] \in {"pending", "ok", "failed"}})

\* An initialization attempt is suspended at its test parse.
InFlight == {h \in Handles : testState[h] = "pending"}

\* Some initialization attempt has succeeded.
succeeded == \E h \in Handles : testState[h] = "ok"

\* Mutant of InitGuard: the guard is missing, every call initialises.
InitGuardMissing(p, flag) == TRUE

\* `if (!parser && !parserInitialized)`
InitGuard(p, flag) == p = NoParser /\ ~flag

\* The test parse's result passes both checks of initParser.
TestPasses(testResult) == testResult = "tree"

\* Mutant of ParserAfterTest: the reset runs in a finally block.
ParserAfterTestFinally(h, testResult) == NoParser

\* `parser` after the test parse: kept, or reset to null by the catch block.
ParserAfterTest(h, testResult) == IF TestPasses(testResult) THEN h ELSE NoParser

\* Mutant of FlagAfterTest: the catch block does not reset the flag.
FlagAfterTestKept(flag, testResult) == flag

\* `parserInitialized` after the test parse: kept, or reset to false by the
\* catch block.
FlagAfterTest(flag, testResult) == TestPasses(testResult) /\ flag

\* A query string is the sequence of its characters.
Whitespace == {" ", "\t", "\n"}

RECURSIVE TrimStart(_)
TrimStart(text) ==
  IF text # <<>> /\ Head(text) \in Whitespace THEN TrimStart(Tail(text)) ELSE text

RECURSIVE TrimEnd(_)
TrimEnd(text) ==
  IF text # <<>> /\ text[Len(text)] \in Whitespace
    THEN TrimEnd(SubSeq(text, 1, Len(text) - 1)) ELSE text

\* Mutant of Trim: the query is not trimmed before the empty check.
TrimNothing(text) == text

\* String.prototype.trim
Trim(text) == TrimEnd(TrimStart(text))

\* The query strings the callers pass: the empty string, a whitespace-only
\* string, and a statement with whitespace around it.
Queries ==
  {<<>>, <<" ", "\n">>, <<"\n", "S", "E", "L", "E", "C", "T", " ", "1", "\t">>}

\* The query variable of a caller that is not in a call.
NoQuery == <<>>

\* JavaScript values that can reach the `error` field: a string, or an
\* object whose conversion to a string gives `text`.
JsString(text) == [type |-> "string", text |-> text]
JsObject(text) == [type |-> "object", text |-> text]

\* `typeof error === 'string' ? error : String(error)`
ToErrorMessage(error) == IF error.type = "string" THEN error ELSE JsString(error.text)

\* The ParsedQuery values parseSQL resolves to; a valid one has no `error`.
ErrorResult(error) == [isValid |-> FALSE, error |-> error, command |-> "", tables |-> <<>>]
EmptyQueryResult == ErrorResult(JsString("Query cannot be empty"))
ParseErrorResult(msg) == ErrorResult(JsString(msg))
ValidResult(extractionResult) ==
  [isValid |-> TRUE, command |-> extractionResult.command, tables |-> extractionResult.tables]

\* The promise of a parseSQL call that has not settled.
NoResult == ErrorResult(JsString("pending"))

\* How a block of code completes: it throws, or it returns a value.
Thrown(message) == [thrown |-> message]
Returned(value) == [returned |-> value]

----------------------------------------------------------------------------
(* lockData.ts: the lock mode registry and the command -> lock mode table *)

\* Object.keys(LOCK_MODES), in the order of the literal (weakest to strongest).
LockModeNames ==
  << "ACCESS SHARE", "ROW SHARE", "ROW EXCLUSIVE", "SHARE UPDATE EXCLUSIVE",
     "SHARE", "SHARE ROW EXCLUSIVE", "EXCLUSIVE", "ACCESS EXCLUSIVE" >>

\* Mutant of LockConflicts: ROW EXCLUSIVE lists SHARE UPDATE EXCLUSIVE, which
\* does not list it back.
LockConflictsAsymmetric(mode) ==
  CASE mode = "ACCESS SHARE" -> <<"ACCESS EXCLUSIVE">>
    [] mode = "ROW SHARE" -> <<"EXCLUSIVE", "ACCESS EXCLUSIVE">>
    [] mode = "ROW EXCLUSIVE" ->
         <<"SHARE UPDATE EXCLUSIVE", "SHARE", "SHARE ROW EXCLUSIVE", "EXCLUSIVE", "ACCESS EXCLUSIVE">>
    [] mode = "SHARE UPDATE EXCLUSIVE" ->
         <<"SHARE UPDATE EXCLUSIVE", "SHARE", "SHARE ROW EXCLUSIVE", "EXCLUSIVE", "ACCESS EXCLUSIVE">>
    [] mode = "SHARE" ->
         <<"ROW EXCLUSIVE", "SHARE UPDATE EXCLUSIVE", "SHARE ROW EXCLUSIVE", "EXCLUSIVE", "ACCESS EXCLUSIVE">>
    [] mode = "SHARE ROW EXCLUSIVE" ->
         <<"ROW EXCLUSIVE", "SHARE UPDATE EXCLUSIVE", "SHARE", "SHARE ROW EXCLUSIVE", "EXCLUSIVE",
           "ACCESS EXCLUSIVE">>
    [] mode = "EXCLUSIVE" ->
         <<"ROW SHARE", "ROW EXCLUSIVE", "SHARE UPDATE EXCLUSIVE", "SHARE", "SHARE ROW EXCLUSIVE",
           "EXCLUSIVE", "ACCESS EXCLUSIVE">>
    [] mode = "ACCESS EXCLUSIVE" ->
         <<"ACCESS SHARE", "ROW SHARE", "ROW EXCLUSIVE", "SHARE UPDATE EXCLUSIVE", "SHARE",
           "SHARE ROW EXCLUSIVE", "EXCLUSIVE", "ACCESS EXCLUSIVE">>

\* Mutant of LockConflicts: SHARE lists itself and SHARE UPDATE EXCLUSIVE
\* does not (the self-conflicts of "the four strongest modes").
LockConflictsStrongestFour(mode) ==
  CASE mode = "ACCESS SHARE" -> <<"ACCESS EXCLUSIVE">>
    [] mode = "ROW SHARE" -> <<"EXCLUSIVE", "ACCESS EXCLUSIVE">>
    [] mode = "ROW EXCLUSIVE" -> <<"SHARE", "SHARE ROW EXCLUSIVE", "EXCLUSIVE", "ACCESS EXCLUSIVE">>
    [] mode = "SHARE UPDATE EXCLUSIVE" ->
         <<"SHARE", "SHARE ROW EXCLUSIVE", "EXCLUSIVE", "ACCESS EXCLUSIVE">>
    [] mode = "SHARE" ->
         <<"ROW EXCLUSIVE", "SHARE UPDATE EXCLUSIVE", "SHARE", "SHARE ROW EXCLUSIVE", "EXCLUSIVE",
           "ACCESS EXCLUSIVE">>
    [] mode = "SHARE ROW EXCLUSIVE" ->
         <<"ROW EXCLUSIVE", "SHARE UPDATE EXCLUSIVE", "SHARE", "SHARE ROW EXCLUSIVE", "EXCLUSIVE",
           "ACCESS EXCLUSIVE">>
    [] mode = "EXCLUSIVE" ->
         <<"ROW SHARE", "ROW EXCLUSIVE", "SHARE UPDATE EXCLUSIVE", "SHARE", "SHARE ROW EXCLUSIVE",
           "EXCLUSIVE", "ACCESS EXCLUSIVE">>
    [] mode = "ACCESS EXCLUSIVE" ->
         <<"ACCESS SHARE", "ROW SHARE", "ROW EXCLUSIVE", "SHARE UPDATE EXCLUSIVE", "SHARE",
           "SHARE ROW EXCLUSIVE", "EXCLUSIVE", "ACCESS EXCLUSIVE">>

\* LOCK_MODES[mode].conflicts
LockConflicts(mode) ==
  CASE mode = "ACCESS SHARE" -> <<"ACCESS EXCLUSIVE">>
    [] mode = "ROW SHARE" -> <<"EXCLUSIVE", "ACCESS EXCLUSIVE">>
    [] mode = "ROW EXCLUSIVE" -> <<"SHARE", "SHARE ROW EXCLUSIVE", "EXCLUSIVE", "ACCESS EXCLUSIVE">>
    [] mode = "SHARE UPDATE EXCLUSIVE" ->
         <<"SHARE UPDATE EXCLUSIVE", "SHARE", "SHARE ROW EXCLUSIVE", "EXCLUSIVE", "ACCESS EXCLUSIVE">>
    [] mode = "SHARE" ->
         <<"ROW EXCLUSIVE", "SHARE UPDATE EXCLUSIVE", "SHARE ROW EXCLUSIVE", "EXCLUSIVE", "ACCESS EXCLUSIVE">>
    [] mode = "SHARE ROW EXCLUSIVE" ->
         <<"ROW EXCLUSIVE", "SHARE UPDATE EXCLUSIVE", "SHARE", "SHARE ROW EXCLUSIVE", "EXCLUSIVE",
           "ACCESS EXCLUSIVE">>
    [] mode = "EXCLUSIVE" ->
         <<"ROW SHARE", "ROW EXCLUSIVE", "SHARE UPDATE EXCLUSIVE", "SHARE", "SHARE ROW EXCLUSIVE",
           "EXCLUSIVE", "ACCESS EXCLUSIVE">>
    [] mode = "ACCESS EXCLUSIVE" ->
         <<"ACCESS SHARE", "ROW SHARE", "ROW EXCLUSIVE", "SHARE UPDATE EXCLUSIVE", "SHARE",
           "SHARE ROW EXCLUSIVE", "EXCLUSIVE", "ACCESS EXCLUSIVE">>

\* LOCK_MODES[mode].description
LockDescription(mode) ==
  CASE mode = "ACCESS SHARE" -> "Only conflicts with ACCESS EXCLUSIVE lock. The lightest lock mode."
    [] mode = "ROW SHARE" -> "Conflicts with EXCLUSIVE and ACCESS EXCLUSIVE locks."
    [] mode = "ROW EXCLUSIVE" ->
         "Conflicts with SHARE, SHARE ROW EXCLUSIVE, EXCLUSIVE, and ACCESS EXCLUSIVE locks."
    [] mode = "SHARE UPDATE EXCLUSIVE" ->
         "Conflicts with SHARE UPDATE EXCLUSIVE, SHARE, SHARE ROW EXCLUSIVE, EXCLUSIVE, and ACCESS EXCLUSIVE locks."
    [] mode = "SHARE" ->
         "Conflicts with ROW EXCLUSIVE, SHARE UPDATE EXCLUSIVE, SHARE ROW EXCLUSIVE, EXCLUSIVE, and ACCESS EXCLUSIVE locks."
    [] mode = "SHARE ROW EXCLUSIVE" ->
         "Conflicts with ROW EXCLUSIVE, SHARE UPDATE EXCLUSIVE, SHARE, SHARE ROW EXCLUSIVE, EXCLUSIVE, and ACCESS EXCLUSIVE locks."
    [] mode = "EXCLUSIVE" ->
         "Conflicts with ROW SHARE, ROW EXCLUSIVE, SHARE UPDATE EXCLUSIVE, SHARE, SHARE ROW EXCLUSIVE, EXCLUSIVE, and ACCESS EXCLUSIVE locks."
    [] mode = "ACCESS EXCLUSIVE" -> "Conflicts with ALL lock modes. The most restrictive lock."

\* The registry: one entry per mode name.
LOCK_MODES ==
  [mode \in {LockModeNames[i] : i \in 1..Len(LockModeNames)} |->
     [name |-> mode, description |-> LockDescription(mode), conflicts |-> LockConflicts(mode)]]

\* lockMode is a key of the LOCK_MODES literal.
IsLockMode(lockMode) == lockMode \in DOMAIN LOCK_MODES

\* Property names that LOCK_MODES, an object literal, inherits from
\* Object.prototype: `LOCK_MODES[name]` is a function, which is truthy and
\* has no `conflicts` property.
InheritedKeys == {"constructor"}

\* `LOCK_MODES[lockMode]` is truthy.
LookupTruthy(lockMode) == IsLockMode(lockMode) \/ lockMode \in InheritedKeys

\* Array.prototype.includes
Includes(seq, x) == \E i \in 1..Len(seq) : seq[i] = x

\* Mapping of SQL commands to their lock modes.
COMMAND_LOCKS ==
  [command \in
     {"SELECT", "SELECT FOR UPDATE", "SELECT FOR NO KEY UPDATE", "SELECT FOR SHARE",
      "SELECT FOR KEY SHARE", "INSERT", "INSERT ON CONFLICT", "UPDATE", "DELETE", "MERGE",
      "COPY TO", "COPY FROM", "EXPLAIN", "TRUNCATE", "DROP TABLE", "CREATE INDEX",
      "CREATE INDEX CONCURRENTLY", "REINDEX", "VACUUM", "VACUUM FULL", "ANALYZE", "ALTER TABLE",
      "ALTER TABLE ADD COLUMN", "ALTER TABLE ADD FOREIGN KEY", "ALTER TABLE VALIDATE CONSTRAINT",
      "ALTER TABLE ATTACH PARTITION", "ALTER TABLE SET TABLESPACE", "ALTER TABLE DISABLE TRIGGER",
      "CREATE TRIGGER", "REFRESH MATERIALIZED VIEW", "REFRESH MATERIALIZED VIEW CONCURRENTLY"} |->
     CASE command \in {"SELECT", "COPY TO", "EXPLAIN"} -> "ACCESS SHARE"
       [] command \in {"SELECT FOR UPDATE", "SELECT FOR NO KEY UPDATE", "SELECT FOR SHARE",
                       "SELECT FOR KEY SHARE"} -> "ROW SHARE"
       [] command \in {"INSERT", "INSERT ON CONFLICT", "UPDATE", "DELETE", "MERGE", "COPY FROM"} ->
            "ROW EXCLUSIVE"
       [] command \in {"CREATE INDEX CONCURRENTLY", "VACUUM", "ANALYZE", "ALTER TABLE ADD COLUMN",
                       "ALTER TABLE VALIDATE CONSTRAINT", "ALTER TABLE ATTACH PARTITION"} ->
            "SHARE UPDATE EXCLUSIVE"
       [] command = "CREATE INDEX" -> "SHARE"
       [] command \in {"ALTER TABLE ADD FOREIGN KEY", "ALTER TABLE DISABLE TRIGGER",
                       "CREATE TRIGGER"} -> "SHARE ROW EXCLUSIVE"
       [] command = "REFRESH MATERIALIZED VIEW CONCURRENTLY" -> "EXCLUSIVE"
       [] command \in {"TRUNCATE", "DROP TABLE", "REINDEX", "VACUUM FULL", "ALTER TABLE",
                       "ALTER TABLE SET TABLESPACE", "REFRESH MATERIALIZED VIEW"} ->
            "ACCESS EXCLUSIVE"]

\* Mutant of CommandLockOrDefault: MERGE maps to a name the registry lacks.
CommandLockOrDefaultUnregistered(command) ==
  IF command = "MERGE" THEN "ROW EXCLUSIVE LOCK"
  ELSE IF command \in DOMAIN COMMAND_LOCKS THEN COMMAND_LOCKS[command] ELSE "ACCESS SHARE"

\* `COMMAND_LOCKS[command] || 'ACCESS SHARE'`
CommandLockOrDefault(command) ==
  IF command \in DOMAIN COMMAND_LOCKS THEN COMMAND_LOCKS[command] ELSE "ACCESS SHARE"

----------------------------------------------------------------------------
(* sqlParser.ts: getTableLockAnalysis and isPrimaryTable *)

\* Classifications extractFromAST returns that COMMAND_LOCKS does not map.
UnmappedCommands == {"DROP", "UNKNOWN"}

\* The classifications the model calls getTableLockAnalysis with.
Commands == DOMAIN COMMAND_LOCKS \cup UnmappedCommands

\* Mutant of StartsWithSelectFor: only FOR UPDATE is a locking read.
StartsWithSelectForUpdateOnly(command) == command = "SELECT FOR UPDATE"

\* `command.startsWith('SELECT FOR')`, over Commands.
StartsWithSelectFor(command) ==
  command \in {"SELECT FOR UPDATE", "SELECT FOR NO KEY UPDATE", "SELECT FOR SHARE",
               "SELECT FOR KEY SHARE"}

\* An optional string argument: <<>> is undefined, <<s>> is the string s.
Undefined == <<>>

\* `if (primaryTable)`: the hint is neither undefined nor the empty string.
HintGiven(primaryTable) == primaryTable # Undefined /\ primaryTable[1] # ""

\* Mutant of isPrimaryTable: without a hint every table is primary.
isPrimaryTableAll(table, command, primaryTable, allTables) ==
  IF HintGiven(primaryTable)
    THEN table = primaryTable[1]
    ELSE TRUE

\* isPrimaryTable: the hint when it is truthy, every table of a TRUNCATE,
\* otherwise the first table.
isPrimaryTable(table, command, primaryTable, allTables) ==
  IF HintGiven(primaryTable)
    THEN table = primaryTable[1]
    ELSE IF command \in {"TRUNCATE"}
           THEN TRUE
           ELSE allTables # <<>> /\ table = allTables[1]

\* Mutant of TableLockMode: no special case for a two-table foreign key.
TableLockModeSinglePrimary(table, tables, command, primaryTable) ==
  IF StartsWithSelectFor(command)
    THEN CommandLockOrDefault(command)
    ELSE IF isPrimaryTable(table, command, primaryTable, tables)
           THEN CommandLockOrDefault(command)
           ELSE "ACCESS SHARE"

\* The lock mode the loop body of getTableLockAnalysis picks for one table.
TableLockMode(table, tables, command, primaryTable) ==
  IF command = "ALTER TABLE ADD FOREIGN KEY" /\ Len(tables) = 2
    THEN IF isPrimaryTable(table, command, primaryTable, tables)
           THEN "SHARE ROW EXCLUSIVE"
           ELSE "SHARE ROW EXCLUSIVE"
    ELSE IF StartsWithSelectFor(command)
           THEN CommandLockOrDefault(command)
           ELSE IF isPrimaryTable(table, command, primaryTable, tables)
                  THEN CommandLockOrDefault(command)
                  ELSE "ACCESS SHARE"

\* The TableLockInfo pushed for a lock mode the registry knows.
TableLockInfo(table, lockMode) ==
  [table |-> table, lockMode |-> lockMode,
   description |-> LOCK_MODES[lockMode].description,
   conflicts |-> LOCK_MODES[lockMode].conflicts]

RECURSIVE LockAnalysisFrom(_, _, _, _, _)
\* The loop of getTableLockAnalysis from index i on, results so far in acc.
LockAnalysisFrom(i, acc, tables, command, primaryTable) ==
  IF i > Len(tables)
    THEN acc
    ELSE LET lockMode == TableLockMode(tables[i], tables, command, primaryTable) IN
         LockAnalysisFrom(i + 1,
                          IF IsLockMode(lockMode)
                            THEN Append(acc, TableLockInfo(tables[i], lockMode))
                            ELSE acc,
                          tables, command, primaryTable)

getTableLockAnalysis(tables, command, primaryTable) ==
  LockAnalysisFrom(1, <<>>, tables, command, primaryTable)

\* Inputs of the model: table lists and hints over a few names.
MaxTables == 3
TableNames == {"logs", "audit_trail", "users"}
HintNames == TableNames \cup {"orders", ""}

RECURSIVE SeqsUpTo(_, _)
\* The sequences over S of length at most n.
SeqsUpTo(S, n) ==
  IF n = 0 THEN {<<>>}
  ELSE LET shorter == SeqsUpTo(S, n - 1) IN
       shorter \cup {Append(q, x) : q \in shorter, x \in S}

TableLists == SeqsUpTo(TableNames, MaxTables)
Hints == {Undefined} \cup {<<h>> : h \in HintNames}

\* The parser handle and the callers at rest, as in Init.
ParserAtRest ==
  /\ parser = NoParser
  /\ parserInitialized = FALSE
  /\ testState = [h \in Handles |-> "none"]
  /\ pc = [c \in Callers |-> "idle"]
  /\ parserInstance = [c \in Callers |-> NoParser]
  /\ result = [c \in Callers |-> NoResult]
  /\ joined = [c \in Callers |-> NoParser]
  /\ myAttempt = [c \in Callers |-> NoParser]
  /\ query = [c \in Callers |-> NoQuery]

\* The arguments of one call of getTableLockAnalysis.
InitLocks ==
  /\ ParserAtRest
  /\ \E tables \in TableLists, command \in Commands, primaryTable \in Hints :
       lockCall = [kind |-> "args", tables |-> tables, command |-> command,
                   primaryTable |-> primaryTable, results |-> <<>>]
  /\ cmpCall = Idle
  /\ astCall = Idle

\* The call of getTableLockAnalysis and what it returns.
GetTableLockAnalysisCall ==
  /\ lockCall.kind = "args"
  /\ lockCall' = [lockCall EXCEPT
                    !.kind = "done",
                    !.results = getTableLockAnalysis(lockCall.tables, lockCall.command,
                                                     lockCall.primaryTable)]
  /\ UNCHANGED <<parser, parserInitialized, testState, pc, parserInstance, result, joined,
                 myAttempt, query, cmpCall, astCall>>

NextLocks == GetTableLockAnalysisCall

SpecLocks == InitLocks /\ [][NextLocks]_vars

----------------------------------------------------------------------------
(* queryComparison.ts: checkLockConflict and compareQueries *)

\* Mutant of checkLockConflict: two holders of the same mode never conflict.
checkLockConflictSameCompatible(lockMode1, lockMode2) ==
  IF ~IsLockMode(lockMode1) \/ ~IsLockMode(lockMode2) \/ lockMode1 = lockMode2
    THEN FALSE
    ELSE \/ Includes(LOCK_MODES[lockMode1].conflicts, lockMode2)
         \/ Includes(LOCK_MODES[lockMode2].conflicts, lockMode1)

\* Mutant of checkLockConflict: no two modes conflict.
checkLockConflictNever(lockMode1, lockMode2) == FALSE

\* checkLockConflict throws a TypeError: both lookups are truthy, so the
\* early return is not taken, and `.conflicts.includes` is called on a value
\* that has no `conflicts`.
checkLockConflictThrows(lockMode1, lockMode2) ==
  /\ LookupTruthy(lockMode1) /\ LookupTruthy(lockMode2)
  /\ lockMode1 \in InheritedKeys \/ lockMode2 \in InheritedKeys

\* checkLockConflict, when it returns: either mode lists the other; FALSE
\* when a lookup is falsy.
checkLockConflict(lockMode1, lockMode2) ==
  IF ~LookupTruthy(lockMode1) \/ ~LookupTruthy(lockMode2)
    THEN FALSE
    ELSE \/ Includes(LOCK_MODES[lockMode1].conflicts, lockMode2)
         \/ Includes(LOCK_MODES[lockMode2].conflicts, lockMode1)

RECURSIVE MapKeys(_, _)
\* The keys of `new Map()` after tables.forEach(t => map.set(t.table, t)):
\* the table names in the order of their first occurrence.
MapKeys(tables, keys) ==
  IF tables = <<>>
    THEN keys
    ELSE MapKeys(Tail(tables),
                 IF Includes(keys, Head(tables).table) THEN keys
                 ELSE Append(keys, Head(tables).table))

\* map.has(tableName)
MapHas(tables, tableName) == \E i \in 1..Len(tables) : tables[i].table = tableName

\* map.get(tableName): the last entry set for the name.
MapGet(tables, tableName) ==
  tables[CHOOSE i \in 1..Len(tables) :
           /\ tables[i].table = tableName
           /\ \A j \in (i + 1)..Len(tables) : tables[j].table # tableName]

\* Mutant of UnionKeys: the names of the second analysis are left out.
UnionKeysFirstOnly(keys, more) == keys

RECURSIVE UnionKeys(_, _)
\* new Set([...keys1, ...keys2]): keys1, then the keys of keys2 not yet in.
UnionKeys(keys, more) ==
  IF more = <<>>
    THEN keys
    ELSE UnionKeys(IF Includes(keys, Head(more)) THEN keys ELSE Append(keys, Head(more)),
                   Tail(more))

\* The four lists before the loop of compareQueries.
EmptyComparison ==
  [conflictingTables |-> <<>>, compatibleTables |-> <<>>,
   query1Only |-> <<>>, query2Only |-> <<>>]

\* Mutant of CompareTable: a table of the first analysis only is also
\* reported as compatible.
CompareTableUniqueAsCompatible(acc, tableName, tables1, tables2) ==
  IF MapHas(tables1, tableName) /\ MapHas(tables2, tableName)
    THEN IF checkLockConflict(MapGet(tables1, tableName).lockMode,
                              MapGet(tables2, tableName).lockMode)
           THEN [acc EXCEPT !.conflictingTables =
                   Append(@, [table |-> tableName,
                              query1Lock |-> MapGet(tables1, tableName).lockMode,
                              query2Lock |-> MapGet(tables2, tableName).lockMode,
                              conflictReason |-> <<MapGet(tables1, tableName).lockMode,
                                                   " conflicts with ",
                                                   MapGet(tables2, tableName).lockMode>>])]
           ELSE [acc EXCEPT !.compatibleTables =
                   Append(@, [table |-> tableName,
                              query1Lock |-> MapGet(tables1, tableName).lockMode,
                              query2Lock |-> MapGet(tables2, tableName).lockMode])]
    ELSE IF MapHas(tables1, tableName)
           THEN [acc EXCEPT !.query1Only = Append(@, tableName),
                            !.compatibleTables =
                               Append(@, [table |-> tableName,
                                          query1Lock |-> MapGet(tables1, tableName).lockMode,
                                          query2Lock |-> MapGet(tables1, tableName).lockMode])]
           ELSE IF MapHas(tables2, tableName)
                  THEN [acc EXCEPT !.query2Only = Append(@, tableName)]
                  ELSE acc

\* One iteration of `for (const tableName of allTables)`.
CompareTable(acc, tableName, tables1, tables2) ==
  IF MapHas(tables1, tableName) /\ MapHas(tables2, tableName)
    THEN LET table1Info == MapGet(tables1, tableName)
             table2Info == MapGet(tables2, tableName)
         IN IF checkLockConflict(table1Info.lockMode, table2Info.lockMode)
              THEN [acc EXCEPT !.conflictingTables =
                      Append(@, [table |-> tableName,
                                 query1Lock |-> table1Info.lockMode,
                                 query2Lock |-> table2Info.lockMode,
                                 conflictReason |-> <<table1Info.lockMode, " conflicts with ",
                                                      table2Info.lockMode>>])]
              ELSE [acc EXCEPT !.compatibleTables =
                      Append(@, [table |-> tableName,
                                 query1Lock |-> table1Info.lockMode,
                                 query2Lock |-> table2Info.lockMode])]
    ELSE IF MapHas(tables1, tableName)
           THEN [acc EXCEPT !.query1Only = Append(@, tableName)]
           ELSE IF MapHas(tables2, tableName)
                  THEN [acc EXCEPT !.query2Only = Append(@, tableName)]
                  ELSE acc

RECURSIVE CompareLoop(_, _, _, _)
\* The loop of compareQueries over the remaining table names.
CompareLoop(acc, allTables, tables1, tables2) ==
  IF allTables = <<>>
    THEN acc
    ELSE CompareLoop(CompareTable(acc, Head(allTables), tables1, tables2),
                     Tail(allTables), tables1, tables2)

\* Mutant of compareQueries: the validity of the analyses is not checked.
compareQueriesUnchecked(query1Analysis, query2Analysis) ==
  LET lists == CompareLoop(EmptyComparison,
                           UnionKeys(MapKeys(query1Analysis.tables, <<>>),
                                     MapKeys(query2Analysis.tables, <<>>)),
                           query1Analysis.tables, query2Analysis.tables)
  IN [isCompatible |-> Len(lists.conflictingTables) = 0,
      conflictingTables |-> lists.conflictingTables,
      compatibleTables |-> lists.compatibleTables,
      uniqueTables |-> [query1Only |-> lists.query1Only, query2Only |-> lists.query2Only]]

\* compareQueries throws: both analyses are valid and the checkLockConflict
\* call for a table of both throws.
compareQueriesThrows(query1Analysis, query2Analysis) ==
  /\ query1Analysis.isValid /\ query2Analysis.isValid
  /\ \E i \in 1..Len(query1Analysis.tables) :
       LET tableName == query1Analysis.tables[i].table IN
       /\ MapHas(query2Analysis.tables, tableName)
       /\ checkLockConflictThrows(MapGet(query1Analysis.tables, tableName).lockMode,
                                  MapGet(query2Analysis.tables, tableName).lockMode)

\* compareQueries, when it returns.
compareQueries(query1Analysis, query2Analysis) ==
  IF ~query1Analysis.isValid \/ ~query2Analysis.isValid
    THEN [isCompatible |-> FALSE, conflictingTables |-> <<>>, compatibleTables |-> <<>>,
          uniqueTables |-> [query1Only |-> <<>>, query2Only |-> <<>>]]
    ELSE LET allTables == UnionKeys(MapKeys(query1Analysis.tables, <<>>),
                                    MapKeys(query2Analysis.tables, <<>>))
             lists == CompareLoop(EmptyComparison, allTables,
                                  query1Analysis.tables, query2Analysis.tables)
         IN [isCompatible |-> Len(lists.conflictingTables) = 0,
             conflictingTables |-> lists.conflictingTables,
             compatibleTables |-> lists.compatibleTables,
             uniqueTables |-> [query1Only |-> lists.query1Only,
                               query2Only |-> lists.query2Only]]

\* Inputs of the model: analyses of at most two distinct tables, as
\* QueryComparison.tsx builds them from getTableLockAnalysis.
NumCmpNames == 2
CmpNamePool == <<"users", "orders", "products">>
CmpNames == {CmpNamePool[i] : i \in 1..NumCmpNames}
CmpModes == DOMAIN LOCK_MODES

CmpEntries == {TableLockInfo(t, m) : t \in CmpNames, m \in CmpModes}

CmpTableLists ==
  {<<>>} \cup {<<e>> : e \in CmpEntries}
         \cup {p \in CmpEntries \X CmpEntries : p[1].table # p[2].table}

CmpAnalyses ==
  {[query |-> "q", tables |-> ts, isValid |-> v] : ts \in CmpTableLists, v \in BOOLEAN}

\* The two analyses handed to compareQueries.
InitCompare ==
  /\ ParserAtRest
  /\ lockCall = Idle
  /\ \E q1 \in CmpAnalyses, q2 \in CmpAnalyses :
       cmpCall = [kind |-> "args", query1Analysis |-> q1, query2Analysis |-> q2,
                  comparison |-> EmptyComparison]
  /\ astCall = Idle

\* The call of compareQueries and what it returns, or that it throws.
CompareQueriesCall ==
  /\ cmpCall.kind = "args"
  /\ cmpCall' = [cmpCall EXCEPT
                   !.kind = "done",
                   !.comparison =
                      IF compareQueriesThrows(cmpCall.query1Analysis, cmpCall.query2Analysis)
                        THEN Thrown("TypeError")
                        ELSE compareQueries(cmpCall.query1Analysis, cmpCall.query2Analysis)]
  /\ UNCHANGED <<parser, parserInitialized, testState, pc, parserInstance, result, joined,
                 myAttempt, query, lockCall, astCall>>

NextCompare == CompareQueriesCall

SpecCompare == InitCompare /\ [][NextCompare]_vars

\* Inputs with lock modes the registry lacks: valid analyses of at most two
\* distinct tables whose lock modes are free-form strings, as the type
\* TableLockInfo allows.
UnregisteredModes == {"SHARE LOCK"} \cup InheritedKeys

FreeFormModes == {"ACCESS SHARE", "SHARE", "ACCESS EXCLUSIVE"} \cup UnregisteredModes

FreeFormEntries ==
  {[table |-> t, lockMode |-> m, description |-> "", conflicts |-> <<>>] :
     t \in CmpNames, m \in FreeFormModes}

FreeFormAnalyses ==
  {[query |-> "q", tables |-> ts, isValid |-> TRUE] :
     ts \in {<<>>} \cup {<<e>> : e \in FreeFormEntries}
              \cup {p \in FreeFormEntries \X FreeFormEntries : p[1].table # p[2].table}}

InitFreeForm ==
  /\ ParserAtRest
  /\ lockCall = Idle
  /\ \E q1 \in FreeFormAnalyses, q2 \in FreeFormAnalyses :
       cmpCall = [kind |-> "args", query1Analysis |-> q1, query2Analysis |-> q2,
                  comparison |-> EmptyComparison]
  /\ astCall = Idle

SpecFreeForm == InitFreeForm /\ [][NextCompare]_vars

----------------------------------------------------------------------------
(* sqlParser.ts: extractFromAST and the walkers it calls.                   *)
(* An AST node is a record holding exactly the keys the parser set: a       *)
(* wrapper such as [SelectStmt |-> body], a body such as                    *)
(* [fromClause |-> <<...>>, whereClause |-> ...]; lists are sequences.      *)
(* `tables` (a JavaScript Set) is a duplicate-free sequence in insertion    *)
(* order. The walkers pass `cteNames` along without reading or writing it,  *)
(* so it is a parameter of extractTablesFromCTE only.                       *)

\* `node.key` is set (an object, hence truthy).
Has(node, key) == key \in DOMAIN node

\* `node.key` is a non-empty string.
HasString(node, key) == key \in DOMAIN node /\ node[key] # ""

\* Set.prototype.add
SetAdd(tables, name) == IF Includes(tables, name) THEN tables ELSE Append(tables, name)

\* extractTableFromRelation: `if (relation && relation.relname) tables.add(...)`
extractTableFromRelation(relation, tables) ==
  IF HasString(relation, "relname") THEN SetAdd(tables, relation.relname) ELSE tables

\* `extractTableFromRelation(stmt.relation, tables)` for a relation that may
\* be undefined.
RelationOf(stmt, tables) ==
  IF Has(stmt, "relation") THEN extractTableFromRelation(stmt.relation, tables) ELSE tables

\* The switch of analyzeSelectStatement over the first locking clause.
SelectCommand(selectStmt) ==
  IF Has(selectStmt, "lockingClause") /\ Len(selectStmt.lockingClause) > 0
       /\ Has(selectStmt.lockingClause[1], "LockingClause")
    THEN LET strength == selectStmt.lockingClause[1].LockingClause.strength IN
         CASE strength = "LCS_FORKEYSHARE" -> "SELECT FOR KEY SHARE"
           [] strength = "LCS_FORSHARE" -> "SELECT FOR SHARE"
           [] strength = "LCS_FORNOKEYUPDATE" -> "SELECT FOR NO KEY UPDATE"
           [] strength = "LCS_FORUPDATE" -> "SELECT FOR UPDATE"
           [] OTHER -> "SELECT"
    ELSE "SELECT"

\* The walkers call one another recursively. Each walker below is one
\* activation: `add` is what it adds to `tables` itself and `calls` the
\* walker calls it makes, in the order of the code (in every walker the
\* additions come before the calls). Walk runs a list of pending calls
\* depth-first, as the call stack does.
Call(fn, arg) == [fn |-> fn, arg |-> arg]

Activation(add, calls) == [add |-> add, calls |-> calls]

\* One call of fn for each element of a list.
CallEach(fn, args) == [i \in 1..Len(args) |-> Call(fn, args[i])]

\* The call of fn on node.key, when that key is set.
CallIf(fn, node, key) == IF Has(node, key) THEN <<Call(fn, node[key])>> ELSE <<>>

\* One call of fn for each element of the list node.key, when that key is set.
CallEachIf(fn, node, key) == IF Has(node, key) THEN CallEach(fn, node[key]) ELSE <<>>

RECURSIVE Concat(_)
Concat(seqs) == IF seqs = <<>> THEN <<>> ELSE Head(seqs) \o Concat(Tail(seqs))

\* What extractTableFromRelation(stmt.relation, tables) adds.
RelationName(stmt) ==
  IF Has(stmt, "relation") /\ HasString(stmt.relation, "relname")
    THEN <<stmt.relation.relname>> ELSE <<>>

\* targetList.forEach: the value of each ResTarget that has one.
TargetListCalls(targetList) ==
  Concat([i \in 1..Len(targetList) |->
            IF Has(targetList[i], "ResTarget")
              THEN CallIf("extractTablesFromExpression", targetList[i].ResTarget, "val")
              ELSE <<>>])

\* Mutant of CaseWhenCalls: only the condition of each CaseWhen is walked.
CaseWhenCallsExprOnly(whens) ==
  Concat([i \in 1..Len(whens) |->
            IF Has(whens[i], "CaseWhen")
              THEN CallIf("extractTablesFromExpression", whens[i].CaseWhen, "expr")
              ELSE <<>>])

\* CaseExpr.args.forEach: the condition and the result of each CaseWhen.
CaseWhenCalls(whens) ==
  Concat([i \in 1..Len(whens) |->
            IF Has(whens[i], "CaseWhen")
              THEN CallIf("extractTablesFromExpression", whens[i].CaseWhen, "expr")
                     \o CallIf("extractTablesFromExpression", whens[i].CaseWhen, "result")
              ELSE <<>>])

\* RangeFunction.functions.forEach: the items of each List.
RangeFunctionCalls(functions) ==
  Concat([i \in 1..Len(functions) |->
            IF Has(functions[i], "List")
              THEN CallEachIf("extractTablesFromExpression", functions[i].List, "items")
              ELSE <<>>])

extractTablesFromFromClause(fromItem) ==
  IF Has(fromItem, "RangeVar")
    THEN Activation(IF HasString(fromItem.RangeVar, "relname")
                      THEN <<fromItem.RangeVar.relname>> ELSE <<>>, <<>>)
  ELSE IF Has(fromItem, "JoinExpr")
    THEN Activation(<<>>, CallIf("extractTablesFromFromClause", fromItem.JoinExpr, "larg")
                            \o CallIf("extractTablesFromFromClause", fromItem.JoinExpr, "rarg")
                            \o CallIf("extractTablesFromExpression", fromItem.JoinExpr, "quals"))
  ELSE IF Has(fromItem, "RangeSubselect")
    THEN Activation(<<>>, CallIf("extractTablesFromSubquery", fromItem.RangeSubselect, "subquery"))
  ELSE IF Has(fromItem, "RangeFunction")
    THEN Activation(<<>>, IF Has(fromItem.RangeFunction, "functions")
                            THEN RangeFunctionCalls(fromItem.RangeFunction.functions)
                            ELSE <<>>)
  ELSE IF Has(fromItem, "RangeTableFunc")
    THEN Activation(<<>>, CallIf("extractTablesFromExpression", fromItem.RangeTableFunc, "docexpr")
                            \o CallIf("extractTablesFromExpression", fromItem.RangeTableFunc,
                                      "rowexpr"))
  ELSE IF Has(fromItem, "List")
    THEN Activation(<<>>, CallEach("extractTablesFromFromClause", fromItem.List.items))
  ELSE Activation(<<>>, <<>>)

extractTablesFromExpression(expr) ==
  IF Has(expr, "SubLink")
    THEN Activation(<<>>, CallIf("extractTablesFromSubquery", expr.SubLink, "subselect"))
  ELSE IF Has(expr, "BoolExpr")
    THEN Activation(<<>>, CallEachIf("extractTablesFromExpression", expr.BoolExpr, "args"))
  ELSE IF Has(expr, "A_Expr")
    THEN Activation(<<>>, CallIf("extractTablesFromExpression", expr.A_Expr, "lexpr")
                            \o CallIf("extractTablesFromExpression", expr.A_Expr, "rexpr"))
  ELSE IF Has(expr, "RowExpr")
    THEN Activation(<<>>, CallEachIf("extractTablesFromExpression", expr.RowExpr, "args"))
  ELSE IF Has(expr, "MultiAssignRef")
    THEN Activation(<<>>, CallIf("extractTablesFromExpression", expr.MultiAssignRef, "source"))
  ELSE IF Has(expr, "FuncCall")
    THEN Activation(<<>>, CallEachIf("extractTablesFromExpression", expr.FuncCall, "args"))
  ELSE IF Has(expr, "CaseExpr")
    THEN Activation(<<>>, CallIf("extractTablesFromExpression", expr.CaseExpr, "arg")
                            \o (IF Has(expr.CaseExpr, "args")
                                  THEN CaseWhenCalls(expr.CaseExpr.args) ELSE <<>>)
                            \o CallIf("extractTablesFromExpression", expr.CaseExpr, "defresult"))
  ELSE IF Has(expr, "List")
    THEN Activation(<<>>, CallEachIf("extractTablesFromExpression", expr.List, "items"))
  ELSE Activation(<<>>, <<>>)

\* analyzeSelectStatement walks the FROM clause, the WHERE clause and the
\* target list; it reads neither the statement's WITH clause nor the arms
\* of a set operation. Its return value is SelectCommand.
analyzeSelectStatement(selectStmt) ==
  Activation(<<>>, CallEachIf("extractTablesFromFromClause", selectStmt, "fromClause")
                     \o CallIf("extractTablesFromExpression", selectStmt, "whereClause")
                     \o (IF Has(selectStmt, "targetList")
                           THEN TargetListCalls(selectStmt.targetList) ELSE <<>>))

\* Mutant of InsertCommand: an INSERT with ON CONFLICT gets a classification
\* that COMMAND_LOCKS does not map.
InsertCommandUpsert(insertStmt) ==
  IF Has(insertStmt, "onConflictClause") THEN "UPSERT" ELSE "INSERT"

\* The return value of analyzeInsertStatement.
InsertCommand(insertStmt) ==
  IF Has(insertStmt, "onConflictClause") THEN "INSERT ON CONFLICT" ELSE "INSERT"

\* Mutant of analyzeInsertStatement: the SELECT part is walked before the
\* target relation is added.
analyzeInsertStatementSelectFirst(insertStmt) ==
  Activation(<<>>, CallIf("extractTablesFromSubquery", insertStmt, "selectStmt")
                     \o <<Call("extractTablesFromFromClause",
                               [RangeVar |-> [relname |-> RelationName(insertStmt)[1]]])>>)

\* analyzeInsertStatement: the target relation, then the SELECT part.
analyzeInsertStatement(insertStmt) ==
  Activation(RelationName(insertStmt), CallIf("extractTablesFromSubquery", insertStmt, "selectStmt"))

extractTablesFromSubquery(subquery) ==
  IF Has(subquery, "SelectStmt")
    THEN Activation(<<>>, <<Call("analyzeSelectStatement", subquery.SelectStmt)>>)
  ELSE IF Has(subquery, "InsertStmt")
    THEN Activation(<<>>, <<Call("analyzeInsertStatement", subquery.InsertStmt)>>)
  ELSE IF Has(subquery, "UpdateStmt")
    THEN Activation(RelationName(subquery.UpdateStmt),
                    CallEachIf("extractTablesFromFromClause", subquery.UpdateStmt, "fromClause")
                      \o CallIf("extractTablesFromExpression", subquery.UpdateStmt, "whereClause"))
  ELSE IF Has(subquery, "DeleteStmt")
    THEN Activation(RelationName(subquery.DeleteStmt),
                    CallEachIf("extractTablesFromFromClause", subquery.DeleteStmt, "usingClause")
                      \o CallIf("extractTablesFromExpression", subquery.DeleteStmt, "whereClause"))
  ELSE Activation(<<>>, <<>>)

\* The activation of one walker call.
Activate(call) ==
  CASE call.fn = "extractTablesFromFromClause" -> extractTablesFromFromClause(call.arg)
    [] call.fn = "extractTablesFromExpression" -> extractTablesFromExpression(call.arg)
    [] call.fn = "extractTablesFromSubquery" -> extractTablesFromSubquery(call.arg)
    [] call.fn = "analyzeSelectStatement" -> analyzeSelectStatement(call.arg)
    [] call.fn = "analyzeInsertStatement" -> analyzeInsertStatement(call.arg)

\* tables.add for each name of a list, in order.
RECURSIVE AddAll(_, _)
AddAll(tables, names) ==
  IF names = <<>> THEN tables ELSE AddAll(SetAdd(tables, Head(names)), Tail(names))

\* `tables` after the pending calls have run, first to last, each call's own
\* calls running before the calls that follow it.
RECURSIVE Walk(_, _)
Walk(calls, tables) ==
  IF calls = <<>> THEN tables
  ELSE Walk(Activate(Head(calls)).calls \o Tail(calls),
            AddAll(tables, Activate(Head(calls)).add))

\* dropStmt.objects.forEach / obj.List.items.forEach: every String item.
RECURSIVE DropItemsEach(_, _)
DropItemsEach(items, tables) ==
  IF items = <<>> THEN tables
  ELSE DropItemsEach(Tail(items),
         IF Has(Head(items), "String") /\ HasString(Head(items).String, "sval")
           THEN SetAdd(tables, Head(items).String.sval) ELSE tables)

RECURSIVE DropObjectsEach(_, _)
DropObjectsEach(objects, tables) ==
  IF objects = <<>> THEN tables
  ELSE DropObjectsEach(Tail(objects),
         IF Has(Head(objects), "List") /\ Has(Head(objects).List, "items")
           THEN DropItemsEach(Head(objects).List.items, tables) ELSE tables)

extractTablesFromDropStmt(dropStmt, tables) ==
  IF Has(dropStmt, "objects") THEN DropObjectsEach(dropStmt.objects, tables) ELSE tables

RECURSIVE TruncateRelationsEach(_, _)
TruncateRelationsEach(relations, tables) ==
  IF relations = <<>> THEN tables
  ELSE TruncateRelationsEach(Tail(relations),
         IF Has(Head(relations), "RangeVar")
           THEN extractTableFromRelation(Head(relations).RangeVar, tables)
           ELSE extractTableFromRelation(Head(relations), tables))

extractTablesFromTruncateStmt(truncateStmt, tables) ==
  IF Has(truncateStmt, "relations") /\ Len(truncateStmt.relations) > 0
    THEN TruncateRelationsEach(truncateStmt.relations, tables) ELSE tables

\* withClause.ctes.forEach: the body of each CommonTableExpr that has one.
CteCalls(ctes) ==
  Concat([i \in 1..Len(ctes) |->
            IF Has(ctes[i], "CommonTableExpr")
              THEN CallIf("extractTablesFromSubquery", ctes[i].CommonTableExpr, "ctequery")
              ELSE <<>>])

\* withClause.ctes.forEach: the alias of each CommonTableExpr that has one.
CteNames(ctes) ==
  {ctes[i].CommonTableExpr.ctename :
     i \in {j \in 1..Len(ctes) : /\ Has(ctes[j], "CommonTableExpr")
                                 /\ HasString(ctes[j].CommonTableExpr, "ctename")}}

\* extractTablesFromCTE: every alias joins cteNames and every body is
\* walked (the walkers do not read cteNames).
extractTablesFromCTE(withClause, tables, cteNames) ==
  IF Has(withClause, "ctes")
    THEN [tables |-> Walk(CteCalls(withClause.ctes), tables),
          cteNames |-> cteNames \cup CteNames(withClause.ctes)]
    ELSE [tables |-> tables, cteNames |-> cteNames]

analyzeAlterTableStatement(alterStmt, tables) ==
  LET t1 == RelationOf(alterStmt, tables)
      plain == [command |-> "ALTER TABLE", tables |-> t1]
  IN IF Has(alterStmt, "cmds") /\ Len(alterStmt.cmds) > 0
          /\ Has(alterStmt.cmds[1], "AlterTableCmd")
       THEN LET cmd == alterStmt.cmds[1].AlterTableCmd IN
            CASE cmd.subtype = "AT_AddColumn" ->
                   [command |-> "ALTER TABLE ADD COLUMN", tables |-> t1]
              [] cmd.subtype = "AT_AddConstraint" ->
                   IF Has(cmd, "def") /\ Has(cmd.def, "Constraint")
                        /\ Has(cmd.def.Constraint, "contype")
                        /\ cmd.def.Constraint.contype = "CONSTR_FOREIGN"
                     THEN [command |-> "ALTER TABLE ADD FOREIGN KEY",
                           tables |-> IF Has(cmd.def.Constraint, "pktable")
                                        THEN extractTableFromRelation(cmd.def.Constraint.pktable, t1)
                                        ELSE t1]
                     ELSE plain
              [] cmd.subtype = "AT_ValidateConstraint" ->
                   [command |-> "ALTER TABLE VALIDATE CONSTRAINT", tables |-> t1]
              [] cmd.subtype = "AT_AttachPartition" ->
                   [command |-> "ALTER TABLE ATTACH PARTITION",
                    tables |-> IF Has(cmd, "def") /\ Has(cmd.def, "RangeVar")
                                 THEN extractTableFromRelation(cmd.def.RangeVar, t1)
                               ELSE IF Has(cmd, "def")
                                 THEN extractTableFromRelation(cmd.def, t1)
                               ELSE t1]
              [] cmd.subtype = "AT_SetTableSpace" ->
                   [command |-> "ALTER TABLE SET TABLESPACE", tables |-> t1]
              [] cmd.subtype = "AT_DisableTrig" ->
                   [command |-> "ALTER TABLE DISABLE TRIGGER", tables |-> t1]
              [] OTHER -> plain
       ELSE plain

\* Mutant of VacuumFull: only the first option is looked at.
VacuumFullFirstOption(vacuumStmt) ==
  /\ Has(vacuumStmt, "options")
  /\ Len(vacuumStmt.options) > 0
  /\ Has(vacuumStmt.options[1], "DefElem")
  /\ Has(vacuumStmt.options[1].DefElem, "defname")
  /\ vacuumStmt.options[1].DefElem.defname = "full"

\* VacuumStmt.options?.some(opt => opt.DefElem?.defname === 'full')
VacuumFull(vacuumStmt) ==
  /\ Has(vacuumStmt, "options")
  /\ \E i \in DOMAIN vacuumStmt.options :
       /\ Has(vacuumStmt.options[i], "DefElem")
       /\ Has(vacuumStmt.options[i].DefElem, "defname")
       /\ vacuumStmt.options[i].DefElem.defname = "full"

RECURSIVE VacuumRelsEach(_, _)
VacuumRelsEach(rels, tables) ==
  IF rels = <<>> THEN tables
  ELSE VacuumRelsEach(Tail(rels),
         IF Has(Head(rels), "RangeVar") /\ HasString(Head(rels).RangeVar, "relname")
           THEN SetAdd(tables, Head(rels).RangeVar.relname)
           ELSE extractTableFromRelation(Head(rels), tables))

\* The statement dispatch of extractFromAST: command, tables and cteNames
\* after the branch for the statement's kind, entered with `tables` and
\* `cteNames` as the wrapper's own WITH clause left them.
StatementBranch(statement, tables, cteNames) ==
  LET Out(command, t) == [command |-> command, tables |-> t, cteNames |-> cteNames] IN
  IF Has(statement, "SelectStmt")
    THEN LET with == IF Has(statement.SelectStmt, "withClause")
                       THEN extractTablesFromCTE(statement.SelectStmt.withClause, tables, cteNames)
                       ELSE [tables |-> tables, cteNames |-> cteNames]
         IN [command |-> SelectCommand(statement.SelectStmt),
             tables |-> Walk(<<Call("analyzeSelectStatement", statement.SelectStmt)>>,
                             with.tables),
             cteNames |-> with.cteNames]
  ELSE IF Has(statement, "InsertStmt")
    THEN Out(InsertCommand(statement.InsertStmt),
             Walk(<<Call("analyzeInsertStatement", statement.InsertStmt)>>, tables))
  ELSE IF Has(statement, "UpdateStmt")
    THEN Out("UPDATE",
             Walk(CallEachIf("extractTablesFromFromClause", statement.UpdateStmt, "fromClause")
                    \o CallIf("extractTablesFromExpression", statement.UpdateStmt, "whereClause")
                    \o (IF Has(statement.UpdateStmt, "targetList")
                          THEN TargetListCalls(statement.UpdateStmt.targetList) ELSE <<>>),
                  RelationOf(statement.UpdateStmt, tables)))
  ELSE IF Has(statement, "DeleteStmt")
    THEN Out("DELETE",
             Walk(CallEachIf("extractTablesFromFromClause", statement.DeleteStmt, "usingClause")
                    \o CallIf("extractTablesFromExpression", statement.DeleteStmt, "whereClause"),
                  RelationOf(statement.DeleteStmt, tables)))
  ELSE IF Has(statement, "IndexStmt")
    THEN Out(IF Has(statement.IndexStmt, "concurrent") /\ statement.IndexStmt.concurrent
               THEN "CREATE INDEX CONCURRENTLY" ELSE "CREATE INDEX",
             RelationOf(statement.IndexStmt, tables))
  ELSE IF Has(statement, "CreateTrigStmt")
    THEN Out("CREATE TRIGGER", RelationOf(statement.CreateTrigStmt, tables))
  ELSE IF Has(statement, "RefreshMatViewStmt")
    THEN Out(IF Has(statement.RefreshMatViewStmt, "concurrent")
                  /\ statement.RefreshMatViewStmt.concurrent
               THEN "REFRESH MATERIALIZED VIEW CONCURRENTLY" ELSE "REFRESH MATERIALIZED VIEW",
             RelationOf(statement.RefreshMatViewStmt, tables))
  ELSE IF Has(statement, "DropStmt")
    THEN IF Has(statement.DropStmt, "removeType")
              /\ statement.DropStmt.removeType = "OBJECT_TABLE"
           THEN Out("DROP TABLE", extractTablesFromDropStmt(statement.DropStmt, tables))
           ELSE Out("DROP", tables)
  ELSE IF Has(statement, "TruncateStmt")
    THEN Out("TRUNCATE", extractTablesFromTruncateStmt(statement.TruncateStmt, tables))
  ELSE IF Has(statement, "AlterTableStmt")
    THEN LET alter == analyzeAlterTableStatement(statement.AlterTableStmt, tables)
         IN Out(alter.command, alter.tables)
  ELSE IF Has(statement, "VacuumStmt")
    THEN Out(IF VacuumFull(statement.VacuumStmt) THEN "VACUUM FULL" ELSE "VACUUM",
             IF Has(statement.VacuumStmt, "rels") /\ Len(statement.VacuumStmt.rels) > 0
               THEN VacuumRelsEach(statement.VacuumStmt.rels, tables) ELSE tables)
  ELSE IF Has(statement, "MergeStmt")
    THEN Out("MERGE",
             Walk(CallIf("extractTablesFromFromClause", statement.MergeStmt, "sourceRelation")
                    \o CallIf("extractTablesFromExpression", statement.MergeStmt, "joinCondition"),
                  RelationOf(statement.MergeStmt, tables)))
  ELSE Out("UNKNOWN", tables)

\* Mutant of FilterTables: the CTE names are not filtered out.
FilterTablesKeepCtes(tables, cteNames) == SelectSeq(tables, LAMBDA table : table # "")

\* Array.from(tables).filter(table => table.length > 0 && !cteNames.has(table))
FilterTables(tables, cteNames) == SelectSeq(tables, LAMBDA table : table # "" /\ table \notin cteNames)

extractFromAST(statement) ==
  LET with == IF Has(statement, "withClause")
                THEN extractTablesFromCTE(statement.withClause, <<>>, {})
                ELSE [tables |-> <<>>, cteNames |-> {}]
      branch == StatementBranch(statement, with.tables, with.cteNames)
  IN [command |-> branch.command, tables |-> FilterTables(branch.tables, branch.cteNames)]

----------------------------------------------------------------------------
(* sqlParser.ts: the steps of initParser and parseSQL *)

\* Statements among those the real parse returns.
ParsedStatements ==
  {[UpdateStmt |-> [relation |-> [relname |-> "sales"],
                    fromClause |-> <<[RangeVar |-> [relname |-> "top_products"]]>>]],
   [CreateStmt |-> [relation |-> [relname |-> "sales"]]]}

\* What `await parserInstance.parse(...)` can do: reject, or resolve to an
\* error result (the error a string or not), to a tree with or without
\* statements, to a statement list that is not wrapped in `tree`, or to a
\* list whose first element has no `stmt`.
ParserResults ==
  {[rejects |-> "parse failed"],
   [resolves |-> [error |-> JsString("syntax error")]],
   [resolves |-> [error |-> JsObject("[object Object]")]],
   [resolves |-> [tree |-> [stmts |-> <<>>]]],
   [resolves |-> [tree |-> [version |-> "17"]]],
   [resolves |-> [tree |-> [stmts |-> <<[stmt_len |-> "0"]>>]]]}
  \cup {[resolves |-> [tree |-> [stmts |-> <<[stmt |-> statement]>>]]] :
          statement \in ParsedStatements}
  \cup {[resolves |-> [stmts |-> <<[stmt |-> statement]>>]] : statement \in ParsedStatements}

\* The body of parseSQL's try block from the real parse on.
parseSQLAfterParse(parsed) ==
  IF Has(parsed, "rejects") THEN Thrown(parsed.rejects)
  ELSE IF Has(parsed.resolves, "error")
    THEN Returned(ErrorResult(ToErrorMessage(parsed.resolves.error)))
  ELSE LET ast == IF Has(parsed.resolves, "tree") THEN parsed.resolves.tree ELSE parsed.resolves
       IN IF ~Has(ast, "stmts") \/ Len(ast.stmts) = 0
            THEN Returned(ParseErrorResult("No statements found in query"))
          ELSE IF ~Has(ast.stmts[1], "stmt")
            THEN Thrown("Cannot read properties of undefined")
          ELSE Returned(ValidResult(extractFromAST(ast.stmts[1].stmt)))

\* Mutant of parseSQLCatch: no catch block, the exception leaves parseSQL.
parseSQLCatchMissing(completion) ==
  IF Has(completion, "thrown") THEN completion ELSE completion.returned

\* The try/catch of parseSQL: what the call resolves to.
parseSQLCatch(completion) ==
  IF Has(completion, "thrown")
    THEN ErrorResult(JsString("Parse error: " \o completion.thrown))
    ELSE completion.returned

Init ==
  /\ parser = NoParser
  /\ parserInitialized = FALSE
  /\ testState = [h \in Handles |-> "none"]
  /\ pc = [c \in Callers |-> "idle"]
  /\ parserInstance = [c \in Callers |-> NoParser]
  /\ result = [c \in Callers |-> NoResult]
  /\ joined = [c \in Callers |-> NoParser]
  /\ myAttempt = [c \in Callers |-> NoParser]
  /\ query = [c \in Callers |-> NoQuery]
  /\ lockCall = Idle
  /\ cmpCall = Idle
  /\ astCall = Idle

\* parseSQL is called with a query that passes `if (!cleanQuery)`.
PassesEmptyCheck(c) ==
  \E q \in Queries :
    /\ Trim(q) # <<>>
    /\ query' = [query EXCEPT ![c] = q]

\* parseSQL with an empty or whitespace-only query: returns before initParser.
CallEmpty(c) ==
  /\ pc[c] = "idle"
  /\ \E q \in Queries :
       /\ Trim(q) = <<>>
       /\ query' = [query EXCEPT ![c] = q]
  /\ pc' = [pc EXCEPT ![c] = "done"]
  /\ result' = [result EXCEPT ![c] = EmptyQueryResult]
  /\ UNCHANGED <<parser, parserInitialized, testState, parserInstance, joined, myAttempt>>
  /\ UNCHANGED <<lockCall, cmpCall, astCall>>

\* parseSQL reaches initParser, the guard holds, the constructor returns:
\* the caller suspends at `await parser.parse('SELECT 1;')`.
CallStartInit(c) ==
  /\ pc[c] = "idle"
  /\ PassesEmptyCheck(c)
  /\ InitGuard(parser, parserInitialized)
  /\ attempts < MaxParsers
  /\ LET h == attempts + 1 IN
       /\ parserInitialized' = TRUE
       /\ parser' = h
       /\ testState' = [testState EXCEPT ![h] = "pending"]
       /\ joined' = [joined EXCEPT ![c] = NoParser]
       /\ myAttempt' = [myAttempt EXCEPT ![c] = h]
  /\ pc' = [pc EXCEPT ![c] = "testParse"]
  /\ UNCHANGED <<parserInstance, result>>
  /\ UNCHANGED <<lockCall, cmpCall, astCall>>

\* parseSQL reaches initParser, the guard holds, `new PgParser()` throws:
\* the catch block resets the guard and initParser rejects.
CallCtorThrows(c) ==
  /\ pc[c] = "idle"
  /\ PassesEmptyCheck(c)
  /\ InitGuard(parser, parserInitialized)
  /\ attempts < MaxParsers
  /\ LET h == attempts + 1 IN
       /\ parserInitialized' = FALSE
       /\ parser' = NoParser
       /\ testState' = [testState EXCEPT ![h] = "ctorFailed"]
       /\ joined' = [joined EXCEPT ![c] = NoParser]
       /\ myAttempt' = [myAttempt EXCEPT ![c] = h]
  /\ pc' = [pc EXCEPT ![c] = "initRejected"]
  /\ UNCHANGED <<parserInstance, result>>
  /\ UNCHANGED <<lockCall, cmpCall, astCall>>

\* parseSQL reaches initParser and the guard does not hold: initParser
\* returns `parser` at once, or throws 'Parser not initialized' when it is
\* null; parseSQL suspends at `await initParser()`.
CallSkipInit(c) ==
  /\ pc[c] = "idle"
  /\ PassesEmptyCheck(c)
  /\ ~InitGuard(parser, parserInitialized)
  /\ joined' = [joined EXCEPT ![c] =
                  IF parser # NoParser /\ testState[parser] = "pending" THEN parser ELSE NoParser]
  /\ IF parser = NoParser
       THEN /\ pc' = [pc EXCEPT ![c] = "notInitialized"]
            /\ UNCHANGED parserInstance
       ELSE /\ pc' = [pc EXCEPT ![c] = "initResolved"]
            /\ parserInstance' = [parserInstance EXCEPT ![c] = parser]
  /\ UNCHANGED <<parser, parserInitialized, testState, result, myAttempt>>
  /\ UNCHANGED <<lockCall, cmpCall, astCall>>

\* The test parse of the caller's attempt completes: initParser returns the
\* parser, or its catch block resets the guard and rethrows.
TestParseDone(c) ==
  /\ pc[c] = "testParse"
  /\ \E testResult \in {"tree", "error", "notree", "throw"} :
       LET after == ParserAfterTest(parser, testResult) IN
       /\ testState' = [testState EXCEPT ![myAttempt[c]] =
                          IF TestPasses(testResult) THEN "ok" ELSE "failed"]
       /\ parser' = after
       /\ parserInitialized' = FlagAfterTest(parserInitialized, testResult)
       /\ IF TestPasses(testResult) /\ after # NoParser
            THEN /\ pc' = [pc EXCEPT ![c] = "initResolved"]
                 /\ parserInstance' = [parserInstance EXCEPT ![c] = after]
            ELSE /\ pc' = [pc EXCEPT ![c] =
                            IF TestPasses(testResult) THEN "notInitialized" ELSE "initRejected"]
                 /\ UNCHANGED parserInstance
  /\ UNCHANGED <<result, joined, myAttempt, query>>
  /\ UNCHANGED <<lockCall, cmpCall, astCall>>

\* `await initParser()` resumes with the parser: parseSQL starts the real
\* parse and suspends at `await parserInstance.parse(...)`.
StartParse(c) ==
  /\ pc[c] = "initResolved"
  /\ pc' = [pc EXCEPT ![c] = "parse"]
  /\ UNCHANGED <<parser, parserInitialized, testState, parserInstance, result, joined, myAttempt,
                 query>>
  /\ UNCHANGED <<lockCall, cmpCall, astCall>>

\* `await initParser()` resumes with the rejection, that of the failed
\* attempt or 'Parser not initialized': parseSQL's catch.
InitRejected(c) ==
  /\ pc[c] \in {"initRejected", "notInitialized"}
  /\ pc' = [pc EXCEPT ![c] = "done"]
  /\ result' = [result EXCEPT ![c] =
                  parseSQLCatch(Thrown(IF pc[c] = "notInitialized"
                                         THEN "Parser not initialized" ELSE "init"))]
  /\ UNCHANGED <<parser, parserInitialized, testState, parserInstance, joined, myAttempt, query>>
  /\ UNCHANGED <<lockCall, cmpCall, astCall>>

\* The real parse completes: an error result, no statements, a thrown
\* exception, or a tree that extractFromAST turns into a valid ParsedQuery.
ParseDone(c) ==
  /\ pc[c] = "parse"
  /\ \E parsed \in ParserResults :
       result' = [result EXCEPT ![c] = parseSQLCatch(parseSQLAfterParse(parsed))]
  /\ pc' = [pc EXCEPT ![c] = "done"]
  /\ UNCHANGED <<parser, parserInitialized, testState, parserInstance, joined, myAttempt, query>>
  /\ UNCHANGED <<lockCall, cmpCall, astCall>>

\* The page consumes the ParsedQuery; the caller may call parseSQL again.
Return(c) ==
  /\ pc[c] = "done"
  /\ pc' = [pc EXCEPT ![c] = "idle"]
  /\ parserInstance' = [parserInstance EXCEPT ![c] = NoParser]
  /\ result' = [result EXCEPT ![c] = NoResult]
  /\ joined' = [joined EXCEPT ![c] = NoParser]
  /\ myAttempt' = [myAttempt EXCEPT ![c] = NoParser]
  /\ query' = [query EXCEPT ![c] = NoQuery]
  /\ UNCHANGED <<parser, parserInitialized, testState>>
  /\ UNCHANGED <<lockCall, cmpCall, astCall>>

Next ==
  \E c \in Callers :
    \/ CallEmpty(c)
    \/ CallStartInit(c)
    \/ CallCtorThrows(c)
    \/ CallSkipInit(c)
    \/ TestParseDone(c)
    \/ StartParse(c)
    \/ InitRejected(c)
    \/ ParseDone(c)
    \/ Return(c)

Spec == Init /\ [][Next]_vars

----------------------------------------------------------------------------
(* Statements handed to extractFromAST: the trees the parser builds for     *)
(* SELECT, INSERT ... SELECT, UPDATE, DELETE and MERGE statements over the  *)
(* names below, with and without a WITH clause on the statement and on a    *)
(* nested SELECT. Each input carries `aliases`, the names its WITH clauses  *)
(* introduce, and `discovered`, the table references the walk of the        *)
(* statement meets, in the order it meets them: those of the WITH clause of *)
(* a top-level SELECT, then those outside WITH clauses.                     *)

\* Tables of the schema, and names that WITH clauses introduce (one of them
\* also the name of a table).
BaseNames == {"sales", "top_products"}

AliasNames == {"ranked_sales", "sales"}

\* What a table reference can name.
AstNames == BaseNames \cup AliasNames

\* An optional key of a node: absent for <<>>, set to v for <<v>>.
OptKey(key, opt) == IF opt = <<>> THEN <<>> ELSE [k \in {key} |-> opt[1]]

OptOf(S) == {<<>>} \cup {<<x>> : x \in S}

RangeVarOf(name) == [RangeVar |-> [relname |-> name]]

\* SELECT ... FROM name
PlainSelects == {[fromClause |-> <<RangeVarOf(name)>>] : name \in AstNames}

\* WITH alias AS (SELECT ... FROM table)
WithClauses ==
  {[ctes |-> <<[CommonTableExpr |->
                  [ctename |-> alias,
                   ctequery |-> [SelectStmt |-> [fromClause |-> <<RangeVarOf(table)>>]]]]>>] :
     alias \in AliasNames, table \in BaseNames}

WithAliases(optWith) ==
  IF optWith = <<>> THEN {}
  ELSE {optWith[1].ctes[i].CommonTableExpr.ctename : i \in DOMAIN optWith[1].ctes}

\* A nested SELECT, with or without its own WITH clause.
NestedSelects ==
  {[node |-> [SelectStmt |-> (body @@ OptKey("withClause", optWith))],
    aliases |-> WithAliases(optWith),
    outside |-> <<body.fromClause[1].RangeVar.relname>>] :
     body \in PlainSelects, optWith \in OptOf(WithClauses)}

TableRefs == {[node |-> RangeVarOf(name), aliases |-> {}, outside |-> <<name>>] : name \in AstNames}

\* FROM items: a table, or a parenthesised SELECT.
FromItems ==
  TableRefs \cup
  {[node |-> [RangeSubselect |-> [subquery |-> sub.node]], aliases |-> sub.aliases,
    outside |-> sub.outside] :
     sub \in NestedSelects}

\* WHERE clauses: col IN (SELECT ...)
SubLinks ==
  {[node |-> [SubLink |-> [subselect |-> sub.node]], aliases |-> sub.aliases,
    outside |-> sub.outside] :
     sub \in NestedSelects}

OptNode(key, opt) == OptKey(key, IF opt = <<>> THEN <<>> ELSE <<opt[1].node>>)

OptAliases(opt) == IF opt = <<>> THEN {} ELSE opt[1].aliases

\* The table references of an optional part, outside WITH clauses.
OptOutside(opt) == IF opt = <<>> THEN <<>> ELSE opt[1].outside

\* The table references of the bodies of an optional WITH clause.
WithBodies(optWith) ==
  IF optWith = <<>> THEN <<>>
  ELSE [i \in DOMAIN optWith[1].ctes |->
          optWith[1].ctes[i].CommonTableExpr.ctequery.SelectStmt.fromClause[1].RangeVar.relname]

SelectInputs ==
  {[statement |-> [SelectStmt |-> ([fromClause |-> <<from.node>>]
                                    @@ OptKey("withClause", optWith)
                                    @@ OptNode("whereClause", optWhere))],
    aliases |-> from.aliases \cup WithAliases(optWith) \cup OptAliases(optWhere),
    discovered |-> WithBodies(optWith) \o from.outside \o OptOutside(optWhere)] :
     from \in FromItems, optWith \in OptOf(WithClauses), optWhere \in OptOf(SubLinks)}

InsertInputs ==
  {[statement |-> [InsertStmt |-> ([relation |-> [relname |-> target],
                                    selectStmt |-> sub.node]
                                    @@ OptKey("withClause", optWith))],
    aliases |-> sub.aliases \cup WithAliases(optWith),
    discovered |-> <<target>> \o sub.outside] :
     target \in AstNames, sub \in NestedSelects, optWith \in OptOf(WithClauses)}

UpdateInputs ==
  {[statement |-> [UpdateStmt |-> ([relation |-> [relname |-> target]]
                                    @@ OptNode("fromClause",
                                               IF optFrom = <<>> THEN <<>>
                                               ELSE <<[node |-> <<optFrom[1].node>>]>>)
                                    @@ OptNode("whereClause", optWhere)
                                    @@ OptKey("withClause", optWith))],
    aliases |-> OptAliases(optFrom) \cup OptAliases(optWhere) \cup WithAliases(optWith),
    discovered |-> <<target>> \o OptOutside(optFrom) \o OptOutside(optWhere)] :
     target \in AstNames, optFrom \in OptOf(TableRefs), optWhere \in OptOf(SubLinks),
     optWith \in OptOf(WithClauses)}

DeleteInputs ==
  {[statement |-> [DeleteStmt |-> ([relation |-> [relname |-> target]]
                                    @@ OptNode("usingClause",
                                               IF optUsing = <<>> THEN <<>>
                                               ELSE <<[node |-> <<optUsing[1].node>>]>>)
                                    @@ OptKey("withClause", optWith))],
    aliases |-> OptAliases(optUsing) \cup WithAliases(optWith),
    discovered |-> <<target>> \o OptOutside(optUsing)] :
     target \in AstNames, optUsing \in OptOf(TableRefs), optWith \in OptOf(WithClauses)}

MergeInputs ==
  {[statement |-> [MergeStmt |-> ([relation |-> [relname |-> target],
                                   sourceRelation |-> source.node]
                                   @@ OptKey("withClause", optWith))],
    aliases |-> source.aliases \cup WithAliases(optWith),
    discovered |-> <<target>> \o source.outside] :
     target \in AstNames, source \in FromItems, optWith \in OptOf(WithClauses)}

StatementInputs == SelectInputs \cup InsertInputs \cup UpdateInputs \cup DeleteInputs \cup MergeInputs

NoExtraction == [command |-> "", tables |-> <<>>]

InitExtract ==
  /\ ParserAtRest
  /\ lockCall = Idle
  /\ cmpCall = Idle
  /\ \E input \in StatementInputs :
       astCall = [kind |-> "args", statement |-> input.statement, aliases |-> input.aliases,
                  discovered |-> input.discovered, result |-> NoExtraction]

\* The call of extractFromAST on the parsed statement and what it returns.
ExtractFromASTCall ==
  /\ astCall.kind = "args"
  /\ astCall' = [astCall EXCEPT !.kind = "done", !.result = extractFromAST(astCall.statement)]
  /\ UNCHANGED <<parser, parserInitialized, testState, pc, parserInstance, result, joined,
                 myAttempt, query, lockCall, cmpCall>>

NextExtract == ExtractFromASTCall

SpecExtract == InitExtract /\ [][NextExtract]_vars

----------------------------------------------------------------------------
(* Further statements the parser builds: the data definition and            *)
(* maintenance statements of the classifier's decision table, statements of *)
(* kinds it does not handle, locking reads and upserts. Each input carries  *)
(* `named`, the names of the statement's table references in the order of   *)
(* the text.                                                                *)

\* The table of a name as written: its last part.
TableOf(name) == name[Len(name)]

\* One to MaxTables names as a statement lists them, each name as written:
\* bare, or with a schema qualifier.
NameLists ==
  SeqsUpTo({<<t>> : t \in BaseNames} \cup {<<"public", t>> : t \in BaseNames}, MaxTables)
    \ {<<>>}

TablesNamed(names) == [i \in DOMAIN names |-> TableOf(names[i])]

\* DROP TABLE / DROP INDEX / DROP VIEW name, ...: each element of
\* DropStmt.objects is the list of the parts of a name.
DropInputs ==
  LET DropObject(name) ==
        [List |-> [items |-> [i \in DOMAIN name |-> [String |-> [sval |-> name[i]]]]]]
  IN
  {[statement |-> [DropStmt |-> [objects |-> [i \in DOMAIN names |-> DropObject(names[i])],
                                 removeType |-> removeType,
                                 behavior |-> "DROP_RESTRICT"]],
    named |-> TablesNamed(names)] :
     names \in NameLists, removeType \in {"OBJECT_TABLE", "OBJECT_INDEX", "OBJECT_VIEW"}}

\* TRUNCATE name, ...: each element of TruncateStmt.relations is a RangeVar.
TruncateInputs ==
  LET RangeVarNode(name) ==
        [relname |-> TableOf(name)]
          @@ OptKey("schemaname", IF Len(name) = 2 THEN <<name[1]>> ELSE <<>>)
  IN
  {[statement |-> [TruncateStmt |->
                     [relations |-> [i \in DOMAIN names |-> [RangeVar |-> RangeVarNode(names[i])]],
                      behavior |-> "DROP_RESTRICT"]],
    named |-> TablesNamed(names)] :
     names \in NameLists}

\* CREATE INDEX [CONCURRENTLY] ... ON table, CREATE TRIGGER ... ON table and
\* REFRESH MATERIALIZED VIEW [CONCURRENTLY] table; a flag that is not set is
\* absent from the node.
FlaggedInputs ==
  {[statement |-> [tag \in {wrapper} |-> ([relation |-> [relname |-> table]]
                                           @@ OptKey("concurrent", optConcurrent))],
    named |-> <<table>>] :
     wrapper \in {"IndexStmt", "RefreshMatViewStmt"}, table \in BaseNames,
     optConcurrent \in OptOf({TRUE})}
  \cup {[statement |-> [CreateTrigStmt |-> [trigname |-> "audit", relation |-> [relname |-> table]]],
         named |-> <<table>>] : table \in BaseNames}

\* The sub-commands of ALTER TABLE, each with the tables it names.
AlterTableCmds ==
  {[node |-> [subtype |-> "AT_AddColumn", def |-> [ColumnDef |-> [colname |-> "note"]]],
    named |-> <<>>],
   [node |-> [subtype |-> "AT_AddConstraint", def |-> [Constraint |-> [contype |-> "CONSTR_CHECK"]]],
    named |-> <<>>],
   [node |-> [subtype |-> "AT_ValidateConstraint", name |-> "sales_fk"], named |-> <<>>],
   [node |-> [subtype |-> "AT_SetTableSpace", name |-> "fast"], named |-> <<>>],
   [node |-> [subtype |-> "AT_DisableTrig", name |-> "audit"], named |-> <<>>],
   [node |-> [subtype |-> "AT_DropColumn", name |-> "note"], named |-> <<>>],
   [node |-> [subtype |-> "AT_EnableTrig", name |-> "audit"], named |-> <<>>]}
  \cup {[node |-> [subtype |-> "AT_AddConstraint",
                   def |-> [Constraint |-> [contype |-> "CONSTR_FOREIGN",
                                            pktable |-> [relname |-> table]]]],
         named |-> <<table>>] : table \in BaseNames}
  \cup {[node |-> [subtype |-> "AT_AttachPartition",
                   def |-> [PartitionCmd |-> [name |-> [relname |-> table]]]],
         named |-> <<table>>] : table \in BaseNames}

\* ALTER TABLE table sub-command [, sub-command]
AlterInputs ==
  {[statement |-> [AlterTableStmt |->
                     [relation |-> [relname |-> table],
                      cmds |-> [i \in DOMAIN cmds |-> [AlterTableCmd |-> cmds[i].node]],
                      objtype |-> "OBJECT_TABLE"]],
    named |-> <<table>> \o Concat([i \in DOMAIN cmds |-> cmds[i].named])] :
     table \in BaseNames, cmds \in SeqsUpTo(AlterTableCmds, 2) \ {<<>>}}

\* VACUUM [(option, ...)] [table]
VacuumInputs ==
  {[statement |-> [VacuumStmt |->
                     ([is_vacuumcmd |-> TRUE]
                      @@ OptKey("options",
                                IF options = <<>> THEN <<>>
                                ELSE <<[i \in DOMAIN options |->
                                          [DefElem |-> [defname |-> options[i]]]]>>)
                      @@ OptKey("rels",
                                IF optTable = <<>> THEN <<>>
                                ELSE <<<<[VacuumRelation |->
                                            [relation |-> [relname |-> optTable[1]]]]>>>>))],
    named |-> optTable] :
     options \in SeqsUpTo({"full", "verbose", "analyze"}, 2), optTable \in OptOf(BaseNames)}

\* SELECT ... FROM table FOR strength [FOR strength]
LockingSelectInputs ==
  {[statement |-> [SelectStmt |->
                     [fromClause |-> <<RangeVarOf(table)>>,
                      lockingClause |-> [i \in DOMAIN strengths |->
                                           [LockingClause |-> [strength |-> strengths[i]]]]]],
    named |-> <<table>>] :
     table \in BaseNames,
     strengths \in SeqsUpTo({"LCS_FORKEYSHARE", "LCS_FORSHARE", "LCS_FORNOKEYUPDATE",
                             "LCS_FORUPDATE"}, 2) \ {<<>>}}

\* INSERT INTO table VALUES (...) [ON CONFLICT DO NOTHING]
UpsertInputs ==
  {[statement |-> [InsertStmt |->
                     ([relation |-> [relname |-> table],
                       selectStmt |-> [SelectStmt |->
                                         [valuesLists |-> <<[List |-> [items |-> <<[A_Const |->
                                                                          [ival |-> "1"]]>>]]>>]]]
                      @@ OptKey("onConflictClause",
                                IF optConflict = <<>> THEN <<>>
                                ELSE <<[action |-> optConflict[1]]>>))],
    named |-> <<table>>] :
     table \in BaseNames, optConflict \in OptOf({"ONCONFLICT_NOTHING", "ONCONFLICT_UPDATE"})}

\* Statements of kinds extractFromAST has no branch for: CREATE TABLE,
\* CREATE VIEW, EXPLAIN, LOCK TABLE and BEGIN.
UnhandledInputs ==
  {[statement |-> [CreateStmt |-> [relation |-> [relname |-> table]]], named |-> <<table>>] :
     table \in BaseNames}
  \cup {[statement |-> [ViewStmt |-> [view |-> [relname |-> "report"],
                                      query |-> [SelectStmt |-> body]]],
         named |-> <<"report", body.fromClause[1].RangeVar.relname>>] : body \in PlainSelects}
  \cup {[statement |-> [ExplainStmt |-> [query |-> [SelectStmt |-> body]]],
         named |-> <<body.fromClause[1].RangeVar.relname>>] : body \in PlainSelects}
  \cup {[statement |-> [LockStmt |-> [relations |-> <<RangeVarOf(table)>>, mode |-> "8"]],
         named |-> <<table>>] : table \in BaseNames}
  \cup {[statement |-> [TransactionStmt |-> [kind |-> "TRANS_STMT_BEGIN"]], named |-> <<>>]}

\* Expressions that hold a subquery under up to MaxExprDepth nested
\* expression nodes.
MaxExprDepth == 2

\* col IN (SELECT ... FROM from [WHERE col IN (SELECT ... FROM inner)]),
\* with the tables the subquery reads in its FROM and WHERE clauses.
SubqueryExprs ==
  {[node |-> [SubLink |->
                [subLinkType |-> "ANY_SUBLINK",
                 subselect |->
                   [SelectStmt |->
                      ([fromClause |-> <<RangeVarOf(from)>>]
                       @@ OptKey("whereClause",
                                 IF optInner = <<>> THEN <<>>
                                 ELSE <<[SubLink |->
                                           [subLinkType |-> "ANY_SUBLINK",
                                            subselect |->
                                              [SelectStmt |->
                                                 [fromClause |->
                                                    <<RangeVarOf(optInner[1])>>]]]]>>))]]],
    named |-> <<from>> \o optInner] :
     from \in BaseNames, optInner \in OptOf(BaseNames)}

\* The places of an expression node that hold an expression.
ExprPlaces ==
  {"BoolExpr.args", "A_Expr.lexpr", "A_Expr.rexpr", "RowExpr.args", "MultiAssignRef.source",
   "FuncCall.args", "List.items", "CaseExpr.arg", "CaseWhen.expr", "CaseWhen.result",
   "CaseExpr.defresult"}

\* The expression node that holds expr at the place, next to column
\* references (expressions that hold no subquery).
ExprAt(place, expr) ==
  LET col == [ColumnRef |-> [fields |-> <<[String |-> [sval |-> "id"]]>>]]
      when(e, r) == <<[CaseWhen |-> [expr |-> e, result |-> r]]>>
  IN CASE place = "BoolExpr.args" -> [BoolExpr |-> [boolop |-> "AND_EXPR", args |-> <<col, expr>>]]
       [] place = "A_Expr.lexpr" ->
            [A_Expr |-> [kind |-> "AEXPR_OP", lexpr |-> expr, rexpr |-> col]]
       [] place = "A_Expr.rexpr" ->
            [A_Expr |-> [kind |-> "AEXPR_OP", lexpr |-> col, rexpr |-> expr]]
       [] place = "RowExpr.args" -> [RowExpr |-> [args |-> <<col, expr>>]]
       [] place = "MultiAssignRef.source" ->
            [MultiAssignRef |-> [source |-> expr, colno |-> "1", ncolumns |-> "2"]]
       [] place = "FuncCall.args" ->
            [FuncCall |-> [funcname |-> <<[String |-> [sval |-> "coalesce"]]>>,
                           args |-> <<expr, col>>]]
       [] place = "List.items" -> [List |-> [items |-> <<col, expr>>]]
       [] place = "CaseExpr.arg" ->
            [CaseExpr |-> [arg |-> expr, args |-> when(col, col), defresult |-> col]]
       [] place = "CaseWhen.expr" -> [CaseExpr |-> [args |-> when(expr, col), defresult |-> col]]
       [] place = "CaseWhen.result" -> [CaseExpr |-> [args |-> when(col, expr), defresult |-> col]]
       [] place = "CaseExpr.defresult" -> [CaseExpr |-> [args |-> when(col, col), defresult |-> expr]]

RECURSIVE ExprUnder(_, _)
\* expr under the places of the list, the first place outermost.
ExprUnder(places, expr) ==
  IF places = <<>> THEN expr ELSE ExprAt(Head(places), ExprUnder(Tail(places), expr))

NestedExprs ==
  {[node |-> ExprUnder(places, sub.node), named |-> sub.named, depth |-> Len(places)] :
     places \in SeqsUpTo(ExprPlaces, MaxExprDepth), sub \in SubqueryExprs}

\* The statements whose expressions go through the expression walker: the
\* WHERE clause of a DELETE and of a SELECT, a SET value of an UPDATE and
\* the condition of a join.
ExpressionInputs ==
  {[statement |-> [DeleteStmt |-> [relation |-> [relname |-> "orders"], whereClause |-> e.node]],
    named |-> <<"orders">> \o e.named] : e \in NestedExprs}
  \cup {[statement |-> [UpdateStmt |->
                          [relation |-> [relname |-> "orders"],
                           targetList |-> <<[ResTarget |-> [name |-> "total", val |-> e.node]]>>]],
         named |-> <<"orders">> \o e.named] : e \in NestedExprs}
  \cup {[statement |-> [SelectStmt |-> [fromClause |-> <<RangeVarOf("orders")>>,
                                        whereClause |-> e.node]],
         named |-> <<"orders">> \o e.named] : e \in NestedExprs}
  \cup {[statement |-> [SelectStmt |->
                          [fromClause |-> <<[JoinExpr |-> [jointype |-> "JOIN_INNER",
                                                           larg |-> RangeVarOf("orders"),
                                                           rarg |-> RangeVarOf("customers"),
                                                           quals |-> e.node]]>>]],
         named |-> <<"orders", "customers">> \o e.named] : e \in NestedExprs}

----------------------------------------------------------------------------
(* The pipeline of the pages: parseSQL, then getTableLockAnalysis without a *)
(* hint (Index.tsx, QueryComparison.tsx), and the lookup getLockAnalysis.   *)

\* null
Null == [null |-> TRUE]

\* Mutant of getLockAnalysis: a command without a mapping is given the
\* weakest lock mode.
getLockAnalysisWithDefault(command) ==
  [lockMode |-> LOCK_MODES[CommandLockOrDefault(command)].name,
   description |-> LOCK_MODES[CommandLockOrDefault(command)].description,
   conflicts |-> LOCK_MODES[CommandLockOrDefault(command)].conflicts]

\* getLockAnalysis of lockData.ts, which sqlParser.ts re-exports.
getLockAnalysis(command) ==
  IF command \notin DOMAIN COMMAND_LOCKS THEN Null
  ELSE IF ~IsLockMode(COMMAND_LOCKS[command]) THEN Null
  ELSE [lockMode |-> LOCK_MODES[COMMAND_LOCKS[command]].name,
        description |-> LOCK_MODES[COMMAND_LOCKS[command]].description,
        conflicts |-> LOCK_MODES[COMMAND_LOCKS[command]].conflicts]

\* analyzeQueryWithValue of Index.tsx, from the ParsedQuery on; an error
\* message is the list of its parts.
analyzeQueryWithValue(parsed) ==
  IF ~parsed.isValid
    THEN [error |-> IF parsed.error.text # "" THEN <<parsed.error.text>>
                    ELSE <<"Failed to parse SQL query">>,
          results |-> <<>>]
  ELSE IF Len(parsed.tables) = 0
    THEN [error |-> <<"No tables found in the query">>, results |-> <<>>]
  ELSE LET analysisResults == getTableLockAnalysis(parsed.tables, parsed.command, Undefined)
       IN IF Len(analysisResults) = 0
            THEN [error |-> <<"Lock analysis not available for command: ", parsed.command>>,
                  results |-> <<>>]
            ELSE [error |-> <<>>, results |-> analysisResults, queryType |-> parsed.command]

\* The statements of the pipeline. Before the calls the page holds no error
\* and no results (setError(""), setResults([])) and no lookup was made.
PipelineInputs ==
  {[statement |-> input.statement, named |-> input.discovered] : input \in StatementInputs}
  \cup DropInputs \cup TruncateInputs \cup FlaggedInputs \cup AlterInputs \cup VacuumInputs
  \cup LockingSelectInputs \cup UpsertInputs \cup UnhandledInputs \cup ExpressionInputs

InitPipeline ==
  /\ ParserAtRest
  /\ lockCall = Idle
  /\ cmpCall = Idle
  /\ \E input \in PipelineInputs :
       astCall = [kind |-> "args", statement |-> input.statement, named |-> input.named,
                  parsed |-> NoResult, analysis |-> [error |-> <<>>, results |-> <<>>],
                  lockInfo |-> [pending |-> TRUE]]

\* parseSQL, from the point where the parser has resolved to the tree of the
\* statement.
ParseStatementCall ==
  /\ astCall.kind = "args"
  /\ astCall' = [astCall EXCEPT
                   !.kind = "parsed",
                   !.parsed = parseSQLCatch(parseSQLAfterParse(
                                [resolves |-> [tree |-> [version |-> "170004",
                                                         stmts |-> <<[stmt |-> astCall.statement]>>]]]))]
  /\ UNCHANGED <<parserVars, lockCall, cmpCall>>

\* The page analyses the ParsedQuery.
AnalyzeQueryCall ==
  /\ astCall.kind = "parsed"
  /\ astCall' = [astCall EXCEPT !.kind = "analysed",
                                !.analysis = analyzeQueryWithValue(astCall.parsed)]
  /\ UNCHANGED <<parserVars, lockCall, cmpCall>>

\* The lock mode of the ParsedQuery's classification is looked up.
GetLockAnalysisCall ==
  /\ astCall.kind = "parsed"
  /\ astCall' = [astCall EXCEPT !.kind = "lookedUp",
                                !.lockInfo = getLockAnalysis(astCall.parsed.command)]
  /\ UNCHANGED <<parserVars, lockCall, cmpCall>>

NextPipeline == ParseStatementCall \/ AnalyzeQueryCall \/ GetLockAnalysisCall

SpecPipeline == InitPipeline /\ [][NextPipeline]_vars

----------------------------------------------------------------------------
(* Claims about getTableLockAnalysis, checked under SpecLocks *)

\* The elements of a sequence.
Range(seq) == {seq[i] : i \in 1..Len(seq)}

\* No element occurs twice.
DuplicateFree(seq) == \A i, j \in 1..Len(seq) : seq[i] = seq[j] => i = j

\* The single-primary case of C1: a non-empty duplicate-free list and a
\* mapped classification outside the all-primary and dual-primary policies.
SinglePrimaryCase ==
  /\ lockCall.kind = "done"
  /\ lockCall.tables # <<>>
  /\ DuplicateFree(lockCall.tables)
  /\ lockCall.command \in DOMAIN COMMAND_LOCKS
  /\ lockCall.command # "TRUNCATE"
  /\ ~StartsWithSelectFor(lockCall.command)
  /\ ~(lockCall.command = "ALTER TABLE ADD FOREIGN KEY" /\ Len(lockCall.tables) = 2)

\* The table C1 names: the hint if one is given, otherwise the first table.
NamedPrimary ==
  IF HintGiven(lockCall.primaryTable) THEN lockCall.primaryTable[1] ELSE lockCall.tables[1]

\* Exactly one entry, the named primary's, carries the classification's
\* lock mode and every other table's entry carries ACCESS SHARE.
OnePrimaryRestAccessShare ==
  /\ Len(lockCall.results) = Len(lockCall.tables)
  /\ Cardinality({i \in 1..Len(lockCall.results) : lockCall.results[i].table = NamedPrimary}) = 1
  /\ \A i \in 1..Len(lockCall.results) :
       /\ lockCall.results[i].table = lockCall.tables[i]
       /\ lockCall.results[i].lockMode =
            IF lockCall.tables[i] = NamedPrimary
              THEN COMMAND_LOCKS[lockCall.command]
              ELSE "ACCESS SHARE"

\* C1 as stated: in the single-primary case, whatever the hint, the named
\* primary table gets the classification's lock mode and every other table
\* gets ACCESS SHARE.
C1_SinglePrimaryAnyHint == SinglePrimaryCase => OnePrimaryRestAccessShare

\* C1 amended: the same, for a call without a hint or with a hint that is
\* one of the tables of the list.
C1_SinglePrimary ==
  (SinglePrimaryCase /\ (HintGiven(lockCall.primaryTable)
                           => lockCall.primaryTable[1] \in Range(lockCall.tables)))
    => OnePrimaryRestAccessShare

\* C1 witness: an UPDATE of three tables whose hint is the second table.
C1_Witness ==
  /\ SinglePrimaryCase
  /\ lockCall.command = "UPDATE"
  /\ Len(lockCall.tables) = 3
  /\ lockCall.primaryTable = <<lockCall.tables[2]>>
  /\ lockCall.results[2].lockMode = "ROW EXCLUSIVE"
  /\ lockCall.results[1].lockMode = "ACCESS SHARE"

\* C2: for TRUNCATE every table of the list receives ACCESS EXCLUSIVE, with
\* or without a hint (a hint, when supplied, naming one of the tables).
C2_TruncateAllPrimary ==
  (/\ lockCall.kind = "done"
   /\ lockCall.command = "TRUNCATE"
   /\ HintGiven(lockCall.primaryTable) => lockCall.primaryTable[1] \in Range(lockCall.tables)) =>
    /\ Len(lockCall.results) = Len(lockCall.tables)
    /\ \A i \in 1..Len(lockCall.results) :
         /\ lockCall.results[i].table = lockCall.tables[i]
         /\ lockCall.results[i].lockMode = "ACCESS EXCLUSIVE"

----------------------------------------------------------------------------
(* Claims about the registry and compareQueries, checked under SpecCompare *)

\* The entries of the two analyses of the current call.
Entries1 == {cmpCall.query1Analysis.tables[i] : i \in 1..Len(cmpCall.query1Analysis.tables)}
Entries2 == {cmpCall.query2Analysis.tables[i] : i \in 1..Len(cmpCall.query2Analysis.tables)}

\* The table names of a list of comparison records.
TablesOf(records) == {records[i].table : i \in 1..Len(records)}

\* mode's own conflict list in the registry names mode.
ListsItself(mode) == Includes(LOCK_MODES[mode].conflicts, mode)

\* The place of a mode in the registry's weakest-to-strongest order.
ModeRank(mode) == CHOOSE i \in 1..Len(LockModeNames) : LockModeNames[i] = mode

\* C7: the stored conflict relation is symmetric: for the modes A and B of
\* any two entries handed to the comparator, B is in A's conflict list iff A
\* is in B's.
C7_ConflictsSymmetric ==
  \A e1 \in Entries1, e2 \in Entries2 :
    Includes(LOCK_MODES[e1.lockMode].conflicts, e2.lockMode)
      <=> Includes(LOCK_MODES[e2.lockMode].conflicts, e1.lockMode)

\* C7 witness: ROW EXCLUSIVE on one side meets SHARE on the other, each
\* listing the other, and the comparator reports the conflict.
C7_Witness ==
  /\ cmpCall.kind = "done"
  /\ \E e1 \in Entries1, e2 \in Entries2 :
       /\ e1.table = e2.table
       /\ e1.lockMode = "ROW EXCLUSIVE" /\ e2.lockMode = "SHARE"
       /\ Includes(e1.conflicts, "SHARE") /\ Includes(e2.conflicts, "ROW EXCLUSIVE")
       /\ e1.table \in TablesOf(cmpCall.comparison.conflictingTables)

\* C8: the UPDATE of users compared with CREATE INDEX CONCURRENTLY on users
\* has one shared table, users, reported as conflicting, isCompatible FALSE.
C8_UpdateVsConcurrentIndex ==
  (/\ cmpCall.kind = "done"
   /\ cmpCall.query1Analysis.isValid /\ cmpCall.query2Analysis.isValid
   /\ cmpCall.query1Analysis.tables = getTableLockAnalysis(<<"users">>, "UPDATE", Undefined)
   /\ cmpCall.query2Analysis.tables =
        getTableLockAnalysis(<<"users">>, "CREATE INDEX CONCURRENTLY", Undefined)) =>
    /\ TablesOf(cmpCall.comparison.conflictingTables) = {"users"}
    /\ Len(cmpCall.comparison.conflictingTables) = 1
    /\ cmpCall.comparison.compatibleTables = <<>>
    /\ cmpCall.comparison.isCompatible = FALSE

\* C9: a valid analysis compared with itself: each of its tables is in
\* conflictingTables iff its lock mode lists itself, otherwise in
\* compatibleTables, and both unique-table lists are empty.
C9_SelfComparison ==
  (/\ cmpCall.kind = "done"
   /\ cmpCall.query1Analysis = cmpCall.query2Analysis
   /\ cmpCall.query1Analysis.isValid) =>
    /\ \A e \in Entries1 :
         /\ e.table \in TablesOf(cmpCall.comparison.conflictingTables) <=> ListsItself(e.lockMode)
         /\ e.table \in TablesOf(cmpCall.comparison.compatibleTables) <=> ~ListsItself(e.lockMode)
    /\ Len(cmpCall.comparison.conflictingTables) + Len(cmpCall.comparison.compatibleTables)
         = Len(cmpCall.query1Analysis.tables)
    /\ cmpCall.comparison.uniqueTables.query1Only = <<>>
    /\ cmpCall.comparison.uniqueTables.query2Only = <<>>

\* C9 witness: a self-comparison of two tables, one whose mode conflicts
\* with itself and one whose mode does not.
C9_Witness ==
  /\ cmpCall.kind = "done"
  /\ cmpCall.query1Analysis = cmpCall.query2Analysis
  /\ cmpCall.query1Analysis.isValid
  /\ Len(cmpCall.comparison.conflictingTables) = 1
  /\ Len(cmpCall.comparison.compatibleTables) = 1

\* C10 as stated: a mode conflicts with itself exactly when it is one of the
\* four strongest modes of the registry's order.
C10_StrongestFourSelfConflict ==
  \A e \in Entries1 :
    checkLockConflict(e.lockMode, e.lockMode) <=> ModeRank(e.lockMode) > 4

\* C10 amended: a mode conflicts with itself exactly when it is SHARE UPDATE
\* EXCLUSIVE, SHARE ROW EXCLUSIVE, EXCLUSIVE or ACCESS EXCLUSIVE; ACCESS
\* SHARE, ROW SHARE, ROW EXCLUSIVE and SHARE do not conflict with themselves.
C10_SelfConflictModes ==
  \A e \in Entries1 :
    checkLockConflict(e.lockMode, e.lockMode)
      <=> e.lockMode \in {"SHARE UPDATE EXCLUSIVE", "SHARE ROW EXCLUSIVE", "EXCLUSIVE",
                          "ACCESS EXCLUSIVE"}

\* C10 witness: SHARE UPDATE EXCLUSIVE compared with itself is reported as a
\* conflict and SHARE compared with itself as compatible.
C10_Witness ==
  /\ cmpCall.kind = "done"
  /\ \E c \in 1..Len(cmpCall.comparison.conflictingTables) :
       /\ cmpCall.comparison.conflictingTables[c].query1Lock = "SHARE UPDATE EXCLUSIVE"
       /\ cmpCall.comparison.conflictingTables[c].query2Lock = "SHARE UPDATE EXCLUSIVE"
  /\ \E c \in 1..Len(cmpCall.comparison.compatibleTables) :
       /\ cmpCall.comparison.compatibleTables[c].query1Lock = "SHARE"
       /\ cmpCall.comparison.compatibleTables[c].query2Lock = "SHARE"

----------------------------------------------------------------------------
(* Claims about the parser handle, checked under Spec *)

\* C4: every parseSQL caller that arrives while an initialization is in
\* flight awaits it: it has not started its real parse while that attempt's
\* test parse is pending, and when the attempt fails its call resolves to
\* the initialization failure.
C4_JoinersAwaitInit ==
  \A c \in Callers :
    joined[c] # NoParser =>
      /\ pc[c] = "parse" => testState[joined[c]] # "pending"
      /\ (pc[c] = "done" /\ testState[joined[c]] = "failed")
            => result[c] = ParseErrorResult("Parse error: init")

\* C5: at most one initialization attempt is in flight, and an attempt
\* starts only from a state with no attempt in flight, no parser set and no
\* earlier success.
C5_SingleInFlight ==
  /\ [](Cardinality(InFlight) <= 1)
  /\ [][attempts' > attempts =>
          (InFlight = {} /\ parser = NoParser /\ ~parserInitialized /\ ~succeeded)]_vars

\* C5 witness: a second attempt (after a failed one) is in flight while
\* another caller has arrived and was not allowed to start one.
C5_Witness ==
  \E c, d \in Callers :
    /\ pc[c] = "testParse" /\ myAttempt[c] = 2 /\ testState[1] = "failed"
    /\ d # c /\ joined[d] = 2

\* C6 as stated: once initialization has started the guard is never reset
\* to 'not started', and the parser is constructed at most once.
C6_NeverReset ==
  /\ [][parserInitialized => parserInitialized']_vars
  /\ [](constructed <= 1)

\* C6 amended: the guard is reset only by the failure of the attempt in
\* flight, a parser is constructed only when every earlier attempt has
\* failed, and once an attempt has succeeded the guard keeps that parser.
C6_ResetOnlyOnFailure ==
  /\ [](succeeded => (parser # NoParser /\ testState[parser] = "ok" /\ parserInitialized))
  /\ [][succeeded => (parser' = parser /\ attempts' = attempts)]_vars
  /\ [][(parserInitialized /\ ~parserInitialized') =>
          (\E h \in Handles : testState[h] = "pending" /\ testState'[h] = "failed")]_vars
  /\ [][constructed' > constructed =>
          (\A h \in Handles : testState[h] \in {"none", "failed", "ctorFailed"})]_vars

\* C6 witness: a first attempt failed, a second one succeeded, and a caller
\* that arrived afterwards is parsing with the surviving handle.
C6_Witness ==
  /\ testState[1] = "failed" /\ testState[2] = "ok" /\ parser = 2
  /\ \E c \in Callers : pc[c] = "parse" /\ myAttempt[c] = NoParser /\ joined[c] = NoParser

----------------------------------------------------------------------------
(* Claims about the table extractor, checked under SpecExtract *)

\* C3: CTE exclusion law. No table name returned by extractFromAST is a name
\* that a WITH clause of the same statement introduces, whatever the kind of
\* the statement (SELECT, INSERT, UPDATE, DELETE, MERGE) and whether the WITH
\* clause is the statement's own or that of a nested SELECT.
C3_CteExclusion ==
  astCall.kind = "done" =>
    \A table \in Range(astCall.result.tables) : table \notin astCall.aliases

----------------------------------------------------------------------------
(* Further claims about compareQueries, checked under SpecCompare *)

\* Both analyses of the current call are valid and the call has returned.
ValidComparison ==
  /\ cmpCall.kind = "done"
  /\ cmpCall.query1Analysis.isValid
  /\ cmpCall.query2Analysis.isValid

\* The table names of the two analyses of the current call.
Names1 == {e.table : e \in Entries1}
Names2 == {e.table : e \in Entries2}

\* The elements of a list of table names.
NamesIn(names) == {names[i] : i \in 1..Len(names)}

\* The number of places of a list of comparison records that name a table.
Places(records, name) == Cardinality({i \in 1..Len(records) : records[i].table = name})

\* The number of places of a list of table names that hold a name.
NamePlaces(names, name) == Cardinality({i \in 1..Len(names) : names[i] = name})

\* Either mode's conflict list in the registry contains the other mode.
EitherLists(mode1, mode2) ==
  \/ Includes(LOCK_MODES[mode1].conflicts, mode2)
  \/ Includes(LOCK_MODES[mode2].conflicts, mode1)

\* C11: when either analysis is invalid the comparison is incompatible and
\* all four lists are empty, whatever tables the analyses carry.
C11_InvalidInput ==
  (cmpCall.kind = "done"
     /\ (~cmpCall.query1Analysis.isValid \/ ~cmpCall.query2Analysis.isValid)) =>
    /\ cmpCall.comparison.isCompatible = FALSE
    /\ cmpCall.comparison.conflictingTables = <<>>
    /\ cmpCall.comparison.compatibleTables = <<>>
    /\ cmpCall.comparison.uniqueTables.query1Only = <<>>
    /\ cmpCall.comparison.uniqueTables.query2Only = <<>>

\* C11 witness: an invalid analysis of a table meets a valid analysis of the
\* same table under a conflicting mode, and the comparison has returned.
C11_Witness ==
  /\ cmpCall.kind = "done"
  /\ ~cmpCall.query1Analysis.isValid /\ cmpCall.query2Analysis.isValid
  /\ \E e1 \in Entries1, e2 \in Entries2 :
       e1.table = e2.table /\ EitherLists(e1.lockMode, e2.lockMode)
  /\ cmpCall.comparison.isCompatible = FALSE

\* C12: for two valid analyses isCompatible holds iff conflictingTables is
\* empty, iff no table present on both sides has a pair of modes of which
\* either lists the other in the registry.
C12_CompatibleIffNoConflict ==
  ValidComparison =>
    /\ cmpCall.comparison.isCompatible <=> cmpCall.comparison.conflictingTables = <<>>
    /\ cmpCall.comparison.isCompatible <=>
         ~\E e1 \in Entries1, e2 \in Entries2 :
            e1.table = e2.table /\ EitherLists(e1.lockMode, e2.lockMode)

\* C12 witness: two valid analyses share two tables, one pair of modes
\* conflicting and one not; the result is incompatible.
C12_Witness ==
  /\ ValidComparison
  /\ Len(cmpCall.comparison.conflictingTables) = 1
  /\ Len(cmpCall.comparison.compatibleTables) = 1
  /\ ~cmpCall.comparison.isCompatible

\* The analysis without the tables whose names are in `names`.
Without(analysis, names) ==
  [analysis EXCEPT !.tables = SelectSeq(@, LAMBDA e : e.table \notin names)]

\* C13: for two valid analyses every table name lands in exactly one place
\* of the four lists, a shared name in conflictingTables or compatibleTables
\* and a one-sided name in its side's unique list; and the comparison
\* without any set of one-sided tables has the same isCompatible,
\* conflictingTables and compatibleTables.
C13_Partition ==
  ValidComparison =>
    LET c == cmpCall.comparison
        Total(name) == Places(c.conflictingTables, name) + Places(c.compatibleTables, name)
                         + NamePlaces(c.uniqueTables.query1Only, name)
                         + NamePlaces(c.uniqueTables.query2Only, name)
        oneSided == (Names1 \ Names2) \cup (Names2 \ Names1)
    IN /\ \A name \in Names1 \cup Names2 :
            /\ Total(name) = 1
            /\ name \in Names1 \cap Names2 =>
                 Places(c.conflictingTables, name) + Places(c.compatibleTables, name) = 1
            /\ name \in Names1 \ Names2 => NamePlaces(c.uniqueTables.query1Only, name) = 1
            /\ name \in Names2 \ Names1 => NamePlaces(c.uniqueTables.query2Only, name) = 1
       /\ TablesOf(c.conflictingTables) \cup TablesOf(c.compatibleTables)
            \cup NamesIn(c.uniqueTables.query1Only) \cup NamesIn(c.uniqueTables.query2Only)
            = Names1 \cup Names2
       /\ \A removed \in SUBSET oneSided :
            LET d == compareQueries(Without(cmpCall.query1Analysis, removed),
                                    Without(cmpCall.query2Analysis, removed))
            IN /\ d.isCompatible = c.isCompatible
               /\ d.conflictingTables = c.conflictingTables
               /\ d.compatibleTables = c.compatibleTables

\* C13 witness: a shared conflicting table and a table of the first
\* analysis only.
C13_Witness ==
  /\ ValidComparison
  /\ Len(cmpCall.comparison.conflictingTables) = 1
  /\ Len(cmpCall.comparison.uniqueTables.query1Only) = 1
  /\ Len(cmpCall.query2Analysis.tables) = 1

\* C14: two valid analyses over disjoint sets of table names are
\* compatible, with no conflicting and no compatible table, and every table
\* of each side in that side's unique list.
C14_DisjointTables ==
  (ValidComparison /\ Names1 \cap Names2 = {}) =>
    /\ cmpCall.comparison.isCompatible = TRUE
    /\ cmpCall.comparison.conflictingTables = <<>>
    /\ cmpCall.comparison.compatibleTables = <<>>
    /\ NamesIn(cmpCall.comparison.uniqueTables.query1Only) = Names1
    /\ NamesIn(cmpCall.comparison.uniqueTables.query2Only) = Names2
    /\ Len(cmpCall.comparison.uniqueTables.query1Only) = Cardinality(Names1)
    /\ Len(cmpCall.comparison.uniqueTables.query2Only) = Cardinality(Names2)

\* C14 witness: one table on each side, of different names, under modes
\* that would conflict on a shared table.
C14_Witness ==
  /\ ValidComparison
  /\ Len(cmpCall.query1Analysis.tables) = 1 /\ Len(cmpCall.query2Analysis.tables) = 1
  /\ cmpCall.query1Analysis.tables[1].table # cmpCall.query2Analysis.tables[1].table
  /\ EitherLists(cmpCall.query1Analysis.tables[1].lockMode,
                 cmpCall.query2Analysis.tables[1].lockMode)
  /\ cmpCall.comparison.isCompatible

----------------------------------------------------------------------------
(* Further claims about getTableLockAnalysis, checked under SpecLocks *)

\* One entry per table of the list, in the order of the list.
OneEntryPerTable ==
  /\ Len(lockCall.results) = Len(lockCall.tables)
  /\ \A i \in 1..Len(lockCall.results) : lockCall.results[i].table = lockCall.tables[i]

C16_OneEntryPerTable ==
  /\ \A command \in DOMAIN COMMAND_LOCKS : COMMAND_LOCKS[command] \in DOMAIN LOCK_MODES
  /\ lockCall.kind = "done" =>
       /\ OneEntryPerTable
       /\ \A i \in 1..Len(lockCall.results) :
            /\ \E m \in 1..Len(LockModeNames) : lockCall.results[i].lockMode = LockModeNames[m]
            /\ lockCall.results[i].description = LockDescription(lockCall.results[i].lockMode)
            /\ lockCall.results[i].conflicts = LockConflicts(lockCall.results[i].lockMode)

\* C16 witness: a MERGE over three tables returned three entries, the first
\* ROW EXCLUSIVE with that mode's conflict list.
C16_Witness ==
  /\ lockCall.kind = "done"
  /\ lockCall.command = "MERGE"
  /\ Len(lockCall.tables) = 3
  /\ Len(lockCall.results) = 3
  /\ lockCall.primaryTable = Undefined
  /\ lockCall.results[1].lockMode = "ROW EXCLUSIVE"
  /\ lockCall.results[1].conflicts = LockConflicts("ROW EXCLUSIVE")
  /\ lockCall.results[3].lockMode = "ACCESS SHARE"

\* C17: for each of the four locking-read classifications every table of
\* the list receives ROW SHARE, whatever its place and whatever the hint.
C17_LockingReadAllRowShare ==
  (/\ lockCall.kind = "done"
   /\ lockCall.command \in {"SELECT FOR UPDATE", "SELECT FOR NO KEY UPDATE",
                            "SELECT FOR SHARE", "SELECT FOR KEY SHARE"}) =>
    /\ OneEntryPerTable
    /\ \A i \in 1..Len(lockCall.results) : lockCall.results[i].lockMode = "ROW SHARE"

\* C17 witness: SELECT FOR SHARE over two tables with the second as hint;
\* the first table holds ROW SHARE as well.
C17_Witness ==
  /\ lockCall.kind = "done"
  /\ lockCall.command = "SELECT FOR SHARE"
  /\ Len(lockCall.tables) = 2
  /\ lockCall.tables[1] # lockCall.tables[2]
  /\ lockCall.primaryTable = <<lockCall.tables[2]>>
  /\ lockCall.results[1].lockMode = "ROW SHARE"

\* C18: for ALTER TABLE ADD FOREIGN KEY with two tables both receive SHARE
\* ROW EXCLUSIVE, whichever is the hint or comes first.
C18_ForeignKeyBothTables ==
  (/\ lockCall.kind = "done"
   /\ lockCall.command = "ALTER TABLE ADD FOREIGN KEY"
   /\ Len(lockCall.tables) = 2) =>
    /\ OneEntryPerTable
    /\ \A i \in 1..Len(lockCall.results) : lockCall.results[i].lockMode = "SHARE ROW EXCLUSIVE"

\* C18 witness: a foreign key between two different tables, the hint being
\* the first; the second holds SHARE ROW EXCLUSIVE too.
C18_Witness ==
  /\ lockCall.kind = "done"
  /\ lockCall.command = "ALTER TABLE ADD FOREIGN KEY"
  /\ Len(lockCall.tables) = 2
  /\ lockCall.tables[1] # lockCall.tables[2]
  /\ lockCall.primaryTable = <<lockCall.tables[1]>>
  /\ lockCall.results[2].lockMode = "SHARE ROW EXCLUSIVE"

----------------------------------------------------------------------------
(* Further claims about the table extractor, checked under SpecExtract *)

\* The CTE aliases extractFromAST collects for the statement of the last
\* call: those of the WITH clause of a top-level SELECT.
Collected ==
  IF Has(astCall.statement, "SelectStmt") /\ Has(astCall.statement.SelectStmt, "withClause")
    THEN WithAliases(<<astCall.statement.SelectStmt.withClause>>)
    ELSE {}

\* A sequence without its repeated elements, first occurrences kept.
RECURSIVE FirstOccurrences(_)
FirstOccurrences(seq) ==
  IF seq = <<>> THEN <<>>
  ELSE LET front == FirstOccurrences(SubSeq(seq, 1, Len(seq) - 1)) IN
       IF seq[Len(seq)] \in Range(front) THEN front ELSE Append(front, seq[Len(seq)])

\* C19: the returned list is the discovered names without the collected CTE
\* aliases and without empty names, each name once, in the order of first
\* discovery; a table that shares its name with a collected alias is left
\* out.
C19_FinalTableList ==
  astCall.kind = "done" =>
    /\ astCall.result.tables =
         FirstOccurrences(SelectSeq(astCall.discovered,
                                    LAMBDA name : name # "" /\ name \notin Collected))
    /\ DuplicateFree(astCall.result.tables)
    /\ \A name \in Range(astCall.result.tables) : name # "" /\ name \notin Collected

\* C19 witness: WITH sales AS (SELECT ... FROM sales) SELECT ... FROM
\* top_products WHERE ... IN (SELECT ... FROM top_products): the table sales
\* is left out and top_products is returned once.
C19_Witness ==
  /\ astCall.kind = "done"
  /\ Collected = {"sales"}
  /\ astCall.discovered = <<"sales", "top_products", "top_products">>
  /\ astCall.result.tables = <<"top_products">>

----------------------------------------------------------------------------
(* Further claims about parseSQL, checked under Spec *)

\* A ParsedQuery as C20 describes it.
IsParsedQuery(value) ==
  /\ {"isValid", "command", "tables"} \subseteq DOMAIN value
  /\ DOMAIN value \subseteq {"isValid", "command", "tables", "error"}
  /\ value.isValid \in BOOLEAN
  /\ ~value.isValid =>
       /\ value.command = ""
       /\ value.tables = <<>>
       /\ "error" \in DOMAIN value
       /\ value.error.type = "string"
  /\ value.isValid => "error" \notin DOMAIN value

\* C20: every parseSQL call that has settled resolved to a ParsedQuery: an
\* invalid one has command '', no tables and a string error, a valid one
\* has no error; no call is rejected.
C20_NeverThrows == \A c \in Callers : pc[c] = "done" => IsParsedQuery(result[c])

\* C20 witness: one call resolved to the error of a failed initialization
\* and another to the error of a parse whose first statement is missing.
C20_Witness ==
  \E c, d \in Callers :
    /\ pc[c] = "done" /\ result[c] = ParseErrorResult("Parse error: init")
    /\ pc[d] = "done"
    /\ result[d] = ParseErrorResult("Parse error: Cannot read properties of undefined")

----------------------------------------------------------------------------
(* Further claims about parseSQL and the parser handle, checked under Spec *)

\* The text is empty or holds whitespace only.
IsBlank(text) == \A i \in 1..Len(text) : text[i] \in Whitespace

\* C21: a parseSQL call with an empty or whitespace-only query resolves to
\* isValid FALSE, error 'Query cannot be empty', command '' and no tables,
\* and the step that takes the call starts no initialization: parser,
\* parserInitialized and the attempts are left as they were.
C21_EmptyQuery ==
  /\ [](\A c \in Callers :
          (pc[c] # "idle" /\ IsBlank(query[c])) =>
            /\ pc[c] = "done"
            /\ result[c] = [isValid |-> FALSE, error |-> JsString("Query cannot be empty"),
                            command |-> "", tables |-> <<>>])
  /\ [][\A c \in Callers :
          (pc[c] = "idle" /\ pc'[c] # "idle" /\ IsBlank(query'[c])) =>
            /\ parser' = parser
            /\ parserInitialized' = parserInitialized
            /\ testState' = testState]_vars

\* C21 witness: a call with a whitespace-only query has resolved while
\* another caller's initialization attempt is in flight.
C21_Witness ==
  \E c, d \in Callers :
    /\ pc[c] = "done" /\ query[c] = <<" ", "\n">>
    /\ result[c].error = JsString("Query cannot be empty")
    /\ pc[d] = "testParse" /\ parserInitialized /\ parser # NoParser

\* C29: in every state in which control can pass between parseSQL callers,
\* parserInitialized holds iff parser is not null; the 'Parser not
\* initialized' error is never thrown: no caller is suspended with that
\* rejection and no call resolves to it.
C29_GuardConsistent ==
  /\ parserInitialized <=> parser # NoParser
  /\ \A c \in Callers :
       /\ pc[c] # "notInitialized"
       /\ result[c] # ErrorResult(JsString("Parse error: Parser not initialized"))

\* C29 witness: the first attempt failed and its caller's call resolved to
\* the failure; a caller that arrived afterwards found the guard reset and
\* has the second attempt in flight.
C29_Witness ==
  \E c, d \in Callers :
    /\ testState[1] = "failed" /\ myAttempt[c] = 1 /\ pc[c] = "done"
    /\ result[c] = ErrorResult(JsString("Parse error: init"))
    /\ myAttempt[d] = 2 /\ pc[d] = "testParse"
    /\ parserInitialized /\ parser = 2

----------------------------------------------------------------------------
(* A claim about unregistered lock modes, checked under SpecFreeForm *)

\* C27: a table of both analyses whose lock mode on either side is not a
\* registered lock mode is placed in compatibleTables and not in
\* conflictingTables: compareQueries returns, and the table does not make
\* isCompatible FALSE.
C27_UnregisteredCompatible ==
  ValidComparison =>
    \A e1 \in Entries1, e2 \in Entries2 :
      (e1.table = e2.table /\ (~IsLockMode(e1.lockMode) \/ ~IsLockMode(e2.lockMode))) =>
        /\ ~Has(cmpCall.comparison, "thrown")
        /\ e1.table \in TablesOf(cmpCall.comparison.compatibleTables)
        /\ e1.table \notin TablesOf(cmpCall.comparison.conflictingTables)

----------------------------------------------------------------------------
(* Claims about the classifier, the extractor and the pages' pipeline,      *)
(* checked under SpecPipeline                                               *)

\* The node tag of a statement.
Tag(statement) == CHOOSE tag \in DOMAIN statement : TRUE

\* The statement of the current call, without its tag.
Body == astCall.statement[Tag(astCall.statement)]

\* The key is set on the node and holds the value.
Holds(node, key, value) == key \in DOMAIN node /\ node[key] = value

\* The classification of a schema alteration by its first sub-command.
AlterationTable(cmd) ==
  CASE cmd.subtype = "AT_AddColumn" -> "ALTER TABLE ADD COLUMN"
    [] cmd.subtype = "AT_AddConstraint"
         /\ "Constraint" \in DOMAIN cmd.def
         /\ cmd.def.Constraint.contype = "CONSTR_FOREIGN" -> "ALTER TABLE ADD FOREIGN KEY"
    [] cmd.subtype = "AT_ValidateConstraint" -> "ALTER TABLE VALIDATE CONSTRAINT"
    [] cmd.subtype = "AT_AttachPartition" -> "ALTER TABLE ATTACH PARTITION"
    [] cmd.subtype = "AT_SetTableSpace" -> "ALTER TABLE SET TABLESPACE"
    [] cmd.subtype = "AT_DisableTrig" -> "ALTER TABLE DISABLE TRIGGER"
    [] OTHER -> "ALTER TABLE"

\* The decision table of the classifier: the classification by the node tag
\* and the discriminators of the statement.
DecisionTable(tag, body) ==
  CASE tag = "SelectStmt" ->
         IF "lockingClause" \in DOMAIN body
           THEN LET strength == body.lockingClause[1].LockingClause.strength IN
                CASE strength = "LCS_FORUPDATE" -> "SELECT FOR UPDATE"
                  [] strength = "LCS_FORNOKEYUPDATE" -> "SELECT FOR NO KEY UPDATE"
                  [] strength = "LCS_FORSHARE" -> "SELECT FOR SHARE"
                  [] strength = "LCS_FORKEYSHARE" -> "SELECT FOR KEY SHARE"
           ELSE "SELECT"
    [] tag = "InsertStmt" ->
         IF "onConflictClause" \in DOMAIN body THEN "INSERT ON CONFLICT" ELSE "INSERT"
    [] tag = "UpdateStmt" -> "UPDATE"
    [] tag = "DeleteStmt" -> "DELETE"
    [] tag = "MergeStmt" -> "MERGE"
    [] tag = "IndexStmt" ->
         IF Holds(body, "concurrent", TRUE) THEN "CREATE INDEX CONCURRENTLY" ELSE "CREATE INDEX"
    [] tag = "CreateTrigStmt" -> "CREATE TRIGGER"
    [] tag = "RefreshMatViewStmt" ->
         IF Holds(body, "concurrent", TRUE)
           THEN "REFRESH MATERIALIZED VIEW CONCURRENTLY" ELSE "REFRESH MATERIALIZED VIEW"
    [] tag = "DropStmt" -> IF body.removeType = "OBJECT_TABLE" THEN "DROP TABLE" ELSE "DROP"
    [] tag = "TruncateStmt" -> "TRUNCATE"
    [] tag = "AlterTableStmt" -> AlterationTable(body.cmds[1].AlterTableCmd)
    [] tag = "VacuumStmt" ->
         IF "options" \in DOMAIN body
              /\ \E i \in DOMAIN body.options : body.options[i].DefElem.defname = "full"
           THEN "VACUUM FULL" ELSE "VACUUM"
    [] OTHER -> "UNKNOWN"

\* The node tags the classifier handles.
HandledTags ==
  {"SelectStmt", "InsertStmt", "UpdateStmt", "DeleteStmt", "MergeStmt", "IndexStmt",
   "CreateTrigStmt", "RefreshMatViewStmt", "DropStmt", "TruncateStmt", "AlterTableStmt",
   "VacuumStmt"}

\* C22: the classification parseSQL returns is the one the decision table
\* gives for the statement's node tag and discriminators, whatever else the
\* statement holds (its tables, clauses, further locking clauses, further
\* sub-commands and options).
C22_DecisionTable ==
  astCall.kind \in {"parsed", "analysed", "lookedUp"} =>
    /\ astCall.parsed.isValid
    /\ astCall.parsed.command = DecisionTable(Tag(astCall.statement), Body)

\* C22 witness: the first sub-command of an ALTER TABLE adds a CHECK
\* constraint and the second adds a column; the classification is the
\* catch-all 'ALTER TABLE'.
C22_Witness ==
  /\ astCall.kind = "parsed"
  /\ Tag(astCall.statement) = "AlterTableStmt"
  /\ Len(Body.cmds) = 2
  /\ Body.cmds[1].AlterTableCmd.subtype = "AT_AddConstraint"
  /\ Holds(Body.cmds[1].AlterTableCmd.def.Constraint, "contype", "CONSTR_CHECK")
  /\ Body.cmds[2].AlterTableCmd.subtype = "AT_AddColumn"
  /\ astCall.parsed.command = "ALTER TABLE"

\* C23: for a parsed statement whose node tag is none of the handled kinds
\* parseSQL does not fail: it returns isValid TRUE, no error, the command
\* 'UNKNOWN' and the tables extracted (none); getLockAnalysis of that
\* command returns null.
C23_UnknownDegrades ==
  (astCall.kind # "args" /\ Tag(astCall.statement) \notin HandledTags) =>
    /\ astCall.parsed.isValid
    /\ "error" \notin DOMAIN astCall.parsed
    /\ astCall.parsed.command = "UNKNOWN"
    /\ astCall.parsed.tables = <<>>
    /\ astCall.kind = "lookedUp" => astCall.lockInfo = Null

\* C23 witness: the lookup for a CREATE VIEW statement has returned null.
C23_Witness ==
  /\ astCall.kind = "lookedUp"
  /\ Tag(astCall.statement) = "ViewStmt"
  /\ astCall.parsed.command = "UNKNOWN"
  /\ astCall.lockInfo = Null

\* The statement of the call is one of the inputs.
IsInput(inputs) == [statement |-> astCall.statement, named |-> astCall.named] \in inputs

\* The elements of a list.
Elements(list) == {list[i] : i \in DOMAIN list}

\* C24: extractTablesFromExpression reaches every subquery nested at any
\* depth under boolean connectives, binary expressions, row constructors,
\* multi-assignment sources, function-call arguments, lists and the parts of
\* a CASE (test expression, each branch's condition and result, default):
\* the tables of the subquery's FROM clause and WHERE clause are in the
\* table set of the statement, which holds nothing but the tables the
\* statement names.
C24_NestedSubqueries ==
  (astCall.kind # "args" /\ IsInput(ExpressionInputs))
    => /\ astCall.parsed.isValid
       /\ Elements(astCall.parsed.tables) = Elements(astCall.named)

\* A DELETE whose WHERE clause holds, in the result of a CASE branch under a
\* multi-assignment source, a subquery that has a subquery in its own WHERE
\* clause, has been parsed.
C24_Witness ==
  /\ astCall.kind = "parsed"
  /\ IsInput(ExpressionInputs)
  /\ \E sub \in SubqueryExprs :
       /\ sub.named = <<"sales", "top_products">>
       /\ astCall.statement =
            [DeleteStmt |->
               [relation |-> [relname |-> "orders"],
                whereClause |-> ExprUnder(<<"MultiAssignRef.source", "CaseWhen.result">>,
                                          sub.node)]]
  /\ astCall.parsed.tables = <<"orders", "sales", "top_products">>

\* The statement of the call is DROP TABLE or TRUNCATE.
IsMultiObject ==
  \/ IsInput(TruncateInputs)
  \/ IsInput(DropInputs) /\ astCall.statement.DropStmt.removeType = "OBJECT_TABLE"

C26_DropTableAllExclusive ==
  (/\ astCall.kind = "analysed"
   /\ IsInput(DropInputs)
   /\ astCall.statement.DropStmt.removeType = "OBJECT_TABLE")
    => \A table \in Elements(astCall.named) :
         \E i \in DOMAIN astCall.analysis.results :
           /\ astCall.analysis.results[i].table = table
           /\ astCall.analysis.results[i].lockMode = "ACCESS EXCLUSIVE"

\* The statement of the call is an INSERT, UPDATE, DELETE or MERGE.
IsDataChange ==
  Tag(astCall.statement) \in {"InsertStmt", "UpdateStmt", "DeleteStmt", "MergeStmt"}

\* C28: for INSERT, UPDATE, DELETE and MERGE analysed end to end without a
\* hint (parseSQL, then getTableLockAnalysis on its result), the target
\* relation is the first element of the extracted table list; it receives
\* ROW EXCLUSIVE and every other extracted table receives ACCESS SHARE.
C28_TargetFirst ==
  (astCall.kind = "analysed" /\ IsDataChange)
    => /\ astCall.parsed.isValid
       /\ astCall.parsed.tables # <<>>
       /\ astCall.parsed.tables[1] = Body.relation.relname
       /\ Len(astCall.analysis.results) = Len(astCall.parsed.tables)
       /\ \A i \in DOMAIN astCall.analysis.results :
            /\ astCall.analysis.results[i].table = astCall.parsed.tables[i]
            /\ astCall.analysis.results[i].lockMode =
                 IF i = 1 THEN "ROW EXCLUSIVE" ELSE "ACCESS SHARE"

\* An INSERT ... SELECT into top_products that reads sales has been
\* analysed: two tables, the target first.
C28_Witness ==
  /\ astCall.kind = "analysed"
  /\ Tag(astCall.statement) = "InsertStmt"
  /\ astCall.parsed.tables = <<"top_products", "sales">>
  /\ Len(astCall.analysis.results) = 2
  /\ astCall.analysis.results[1].lockMode = "ROW EXCLUSIVE"
  /\ astCall.analysis.results[2].lockMode = "ACCESS SHARE"

\* C30: every classification that parseSQL returns together with a
\* non-empty table list has an entry in COMMAND_LOCKS; the classifications
\* without one are 'DROP' and 'UNKNOWN', which come with an empty table
\* list. So every lock mode of the analysis is the one COMMAND_LOCKS gives
\* or the non-primary ACCESS SHARE, never the fallback for an unmapped
\* command, and the Index page never reports 'Lock analysis not available
\* for command'.
C30_MappedWhenTables ==
  (astCall.kind # "args" /\ astCall.parsed.isValid)
    => /\ astCall.parsed.tables # <<>> => astCall.parsed.command \in DOMAIN COMMAND_LOCKS
       /\ astCall.parsed.command \notin DOMAIN COMMAND_LOCKS
            => /\ astCall.parsed.command \in UnmappedCommands
               /\ astCall.parsed.tables = <<>>
       /\ astCall.kind = "analysed"
            => /\ astCall.analysis.error # <<"Lock analysis not available for command: ",
                                             astCall.parsed.command>>
               /\ astCall.parsed.tables # <<>>
                    => /\ astCall.analysis.error = <<>>
                       /\ Len(astCall.analysis.results) = Len(astCall.parsed.tables)

\* A DROP INDEX that names two indexes has been analysed: the classification
\* is 'DROP', no table was extracted and the page reports that it found no
\* tables.
C30_Witness ==
  /\ astCall.kind = "analysed"
  /\ IsInput(DropInputs)
  /\ astCall.statement.DropStmt.removeType = "OBJECT_INDEX"
  /\ Len(astCall.statement.DropStmt.objects) = 2
  /\ astCall.parsed.command = "DROP"
  /\ astCall.parsed.command \notin DOMAIN COMMAND_LOCKS
  /\ astCall.parsed.tables = <<>>
  /\ astCall.analysis.error = <<"No tables found in the query">>

====
